---- MODULE Spec2Model ----
(***************************************************************************)
(* CITI calculator (karsakov-a/tini_calculator): the risk calculator, the  *)
(* report builder, the JSON history store and the journal dialog.          *)
(*                                                                         *)
(* Conventions of the model                                                *)
(*   - A Python float is an exact rational <<n, d>> with d > 0, kept in    *)
(*     lowest terms; binary rounding is not modelled.                      *)
(*   - A Python str that the code parses, strips or formats is a sequence  *)
(*     of one-character strings.                                           *)
(*   - hash(full_report) is salted per process: the model keeps it as a    *)
(*     term over the report, so equal reports give equal fragments.        *)
(***************************************************************************)
EXTENDS Integers, Sequences, FiniteSets, TLC

VARIABLES
    call,         \* the pure function applied last, its arguments and result
    form,         \* input widgets of CITICalculatorApp
    ui,           \* output widgets and button states of CITICalculatorApp
    full_report,  \* CITICalculatorApp.full_report (an attribute set by on_calculate)
    file,         \* the backing file citi_history.json
    dlg,          \* the HistoryDialog, when open
    now,          \* the wall clock read by datetime.now()
    last,         \* what the handler that ran last did: exception, log records, boxes
    writers       \* running copies of the application inside the try block of on_calculate

vars == <<call, form, ui, full_report, file, dlg, now, last, writers>>

(***************************************************************************)
(* Rationals standing for Python floats                                    *)
(***************************************************************************)
Abs(n) == IF n < 0 THEN -n ELSE n

RECURSIVE Gcd(_, _)
Gcd(a, b) == IF b = 0 THEN a ELSE Gcd(b, a % b)

\* the rational n/d in lowest terms with a positive denominator (d /= 0)
Rat(n, d) ==
    LET g == Gcd(Abs(n), Abs(d))
        s == IF d < 0 THEN -1 ELSE 1
    IN  <<(s * n) \div g, (s * d) \div g>>

RInt(n) == <<n, 1>>
RMul(a, b) == Rat(a[1] * b[1], a[2] * b[2])
RDiv(a, b) == Rat(a[1] * b[2], a[2] * b[1])
RAdd(a, b) == Rat(a[1] * b[2] + b[1] * a[2], a[2] * b[2])
RLt(a, b) == a[1] * b[2] < b[1] * a[2]
RLe(a, b) == a[1] * b[2] <= b[1] * a[2]
RGt(a, b) == RLt(b, a)
RIsInteger(a) == a[2] = 1

\* the literal 0.1 of calculate_citi
TenthLiteral == <<1, 10>>

\* a / b on floats; DivError stands for the ZeroDivisionError of a division by 0.0
DivError == <<0, 0>>
FloatDiv(a, b) == IF b[1] = 0 THEN DivError ELSE RDiv(a, b)

(***************************************************************************)
(* config.py                                                               *)
(***************************************************************************)
CITI_LOW_THRESHOLD == 100000
CITI_HIGH_THRESHOLD == 500000
MIN_CT_PERCENT == 0
MAX_CT_PERCENT == 100

\* The labels are Cyrillic in config.py; the model gives each a short Latin value.
\* A label is a Python str, hence a sequence of characters.
RISK_LOW == <<"L", "o", "w">>
RISK_MODERATE == <<"M", "o", "d", "e", "r", "a", "t", "e">>
RISK_HIGH == <<"H", "i", "g", "h">>
COLOR_LOW == "#4CAF50"
COLOR_MODERATE == "#FFC107"
COLOR_HIGH == "#F44336"
EXTRA_WARNING_CT_CITI == <<"\n", "!", ">", "9", "5", "%">>
UNKNOWN_STATUS == <<"n", "/", "a">>
GENDER_MALE == <<"M">>
GENDER_FEMALE == <<"F">>
INSTRUCTION_DEFAULT == "INSTRUCTION_DEFAULT"
ERROR_MESSAGE_CT == "ERROR_MESSAGE_CT"
ERROR_LOAD_HISTORY == "ERROR_LOAD_HISTORY"
ERROR_SAVE_HISTORY == "ERROR_SAVE_HISTORY"
ERROR_EXPORT_HISTORY_IO == "ERROR_EXPORT_HISTORY_IO"
NO_HISTORY_MESSAGE == "NO_HISTORY_MESSAGE"

\* keys of fields and of raw_data: SURNAME_DESC[1] ... CT_PERCENT_DESC[1], and GENDER,
\* the label that on_calculate uses as the key of the gender
SURNAME_KEY == "surname"
NAME_KEY == "name"
PATRONYMIC_KEY == "patronymic"
D_DIMER_KEY == "d_dimer"
INTERLEUKINS_KEY == "interleukins"
LYMPHOCYTES_KEY == "lymphocytes"
CT_PERCENT_KEY == "ct_percent"
GENDER == "Pol"

(***************************************************************************)
(* core/calculator.py                                                      *)
(***************************************************************************)
\* calculate_citi with the commented-out return of src/calculator.py:12
calculate_citi_offset(d_dimer, interleukins, lymphocytes) ==
    LET denominator == IF RGt(lymphocytes, RInt(0)) THEN lymphocytes ELSE TenthLiteral
    IN  FloatDiv(RMul(d_dimer, interleukins), RAdd(denominator, TenthLiteral))

\* calculate_citi dividing by the lymphocytes as they are
calculate_citi_unguarded(d_dimer, interleukins, lymphocytes) ==
    FloatDiv(RMul(d_dimer, interleukins), lymphocytes)

calculate_citi(d_dimer, interleukins, lymphocytes) ==
    LET denominator == IF RGt(lymphocytes, RInt(0)) THEN lymphocytes ELSE TenthLiteral
    IN  FloatDiv(RMul(d_dimer, interleukins), denominator)

\* interpret_citi with the boundaries given to the neighbouring bands
interpret_citi_strict(citi) ==
    IF RLe(citi, RInt(CITI_LOW_THRESHOLD)) THEN <<RISK_LOW, COLOR_LOW>>
    ELSE IF RLt(citi, RInt(CITI_HIGH_THRESHOLD)) THEN <<RISK_MODERATE, COLOR_MODERATE>>
    ELSE <<RISK_HIGH, COLOR_HIGH>>

interpret_citi(citi) ==
    IF RLt(citi, RInt(CITI_LOW_THRESHOLD)) THEN <<RISK_LOW, COLOR_LOW>>
    ELSE IF RLe(citi, RInt(CITI_HIGH_THRESHOLD)) THEN <<RISK_MODERATE, COLOR_MODERATE>>
    ELSE <<RISK_HIGH, COLOR_HIGH>>

\* get_interpretation_text with the CT boundary included
get_interpretation_text_ge(citi, ct_percent) ==
    LET risk == interpret_citi(citi)[1]
    IN  IF RGt(citi, RInt(CITI_HIGH_THRESHOLD)) /\ RLe(RInt(70), ct_percent)
        THEN risk \o EXTRA_WARNING_CT_CITI
        ELSE risk

get_interpretation_text(citi, ct_percent) ==
    LET risk == interpret_citi(citi)[1]
    IN  IF RGt(citi, RInt(CITI_HIGH_THRESHOLD)) /\ RGt(ct_percent, RInt(70))
        THEN risk \o EXTRA_WARNING_CT_CITI
        ELSE risk

(***************************************************************************)
(* calculator.py: the first copy of the calculator, with its numbers and   *)
(* labels written out in the code                                          *)
(***************************************************************************)
calculator_calculate_citi(d_dimer, interleukins, lymphocytes) ==
    LET denominator == IF RGt(lymphocytes, RInt(0)) THEN lymphocytes ELSE TenthLiteral
    IN  FloatDiv(RMul(d_dimer, interleukins), denominator)

calculator_interpret_citi(citi) ==
    IF RLt(citi, RInt(100000)) THEN << <<"L", "o", "w">>, "#4CAF50" >>
    ELSE IF RLe(citi, RInt(500000))
    THEN << <<"M", "o", "d", "e", "r", "a", "t", "e">>, "#FFC107" >>
    ELSE << <<"H", "i", "g", "h">>, "#F44336" >>

(***************************************************************************)
(* main.py: the copy embedded in the one-file application, with the        *)
(* constants that main.py defines for itself                               *)
(***************************************************************************)
MAIN_CITI_LOW_THRESHOLD == 100000
MAIN_CITI_HIGH_THRESHOLD == 500000
MAIN_CT_WARNING_ABOVE == 70

main_calculate_citi(d_dimer, interleukins, lymphocytes) ==
    LET denominator == IF RGt(lymphocytes, RInt(0)) THEN lymphocytes ELSE TenthLiteral
    IN  FloatDiv(RMul(d_dimer, interleukins), denominator)

\* interpret_citi with the upper boundary given to the high band
main_interpret_citi_lt(citi) ==
    IF RLt(citi, RInt(MAIN_CITI_LOW_THRESHOLD)) THEN << <<"L", "o", "w">>, "#4CAF50" >>
    ELSE IF RLt(citi, RInt(MAIN_CITI_HIGH_THRESHOLD))
    THEN << <<"M", "o", "d", "e", "r", "a", "t", "e">>, "#FFC107" >>
    ELSE << <<"H", "i", "g", "h">>, "#F44336" >>

main_interpret_citi(citi) ==
    IF RLt(citi, RInt(MAIN_CITI_LOW_THRESHOLD)) THEN << <<"L", "o", "w">>, "#4CAF50" >>
    ELSE IF RLe(citi, RInt(MAIN_CITI_HIGH_THRESHOLD))
    THEN << <<"M", "o", "d", "e", "r", "a", "t", "e">>, "#FFC107" >>
    ELSE << <<"H", "i", "g", "h">>, "#F44336" >>

\* risk + extra of main.py's on_calculate, ct being get_float(CT_PERCENT_DESC[1])
main_risk_text(citi, ct) ==
    main_interpret_citi(citi)[1]
        \o (IF RGt(ct, RInt(MAIN_CT_WARNING_ABOVE)) /\ RGt(citi, RInt(MAIN_CITI_HIGH_THRESHOLD))
            THEN <<"\n", "!", ">", "9", "5", "%">>
            ELSE <<>>)

(***************************************************************************)
(* Python str operations used by the code, on sequences of characters      *)
(***************************************************************************)
Digits == <<"0", "1", "2", "3", "4", "5", "6", "7", "8", "9">>
DigitSet == {Digits[i] : i \in 1..10}
DigitVal(c) == (CHOOSE i \in 1..10 : Digits[i] = c) - 1

RECURSIVE Pow10(_)
Pow10(k) == IF k = 0 THEN 1 ELSE 10 * Pow10(k - 1)

Front(s) == SubSeq(s, 1, Len(s) - 1)

\* str.strip() for the blank
RECURSIVE LStrip(_)
LStrip(s) == IF s /= <<>> /\ Head(s) = " " THEN LStrip(Tail(s)) ELSE s
RECURSIVE RStrip(_)
RStrip(s) == IF s /= <<>> /\ s[Len(s)] = " " THEN RStrip(Front(s)) ELSE s
Strip(s) == RStrip(LStrip(s))

\* str.replace(",", ".")
ReplaceComma(s) == [i \in 1..Len(s) |-> IF s[i] = "," THEN "." ELSE s[i]]

\* str.replace(" %", "")
RECURSIVE RemovePercent(_)
RemovePercent(s) ==
    IF Len(s) < 2 THEN s
    ELSE IF s[1] = " " /\ s[2] = "%" THEN RemovePercent(SubSeq(s, 3, Len(s)))
    ELSE <<s[1]>> \o RemovePercent(Tail(s))

RECURSIVE DigitsVal(_)
DigitsVal(s) == IF s = <<>> THEN 0 ELSE 10 * DigitsVal(Front(s)) + DigitVal(s[Len(s)])

\* float(s): [ok |-> FALSE] stands for the ValueError.  Decimal literals with
\* an optional sign; exponents, inf and nan are outside the alphabet of the model.
\*   t is the stripped text, body the text after the sign, dot the place of the point
Unsigned(t) == IF t /= <<>> /\ t[1] \in {"+", "-"} THEN Tail(t) ELSE t

WellFormed(body) ==
    /\ body /= <<>>
    /\ \A i \in 1..Len(body) : body[i] \in DigitSet \cup {"."}
    /\ Cardinality({i \in 1..Len(body) : body[i] = "."}) <= 1
    /\ \E i \in 1..Len(body) : body[i] \in DigitSet

DotAt(body) ==
    IF \E i \in 1..Len(body) : body[i] = "."
    THEN CHOOSE i \in 1..Len(body) : body[i] = "."
    ELSE Len(body) + 1

Magnitude(body, dot) ==
    Rat(DigitsVal(SubSeq(body, 1, dot - 1) \o SubSeq(body, dot + 1, Len(body))),
        Pow10(Len(SubSeq(body, dot + 1, Len(body)))))

Signed(t, magnitude) ==
    IF t[1] = "-" THEN <<-magnitude[1], magnitude[2]>> ELSE magnitude

ParseBody(t, body) ==
    IF ~WellFormed(body) THEN [ok |-> FALSE, val |-> RInt(0)]
    ELSE [ok |-> TRUE, val |-> Signed(t, Magnitude(body, DotAt(body)))]

ParseStripped(t) == ParseBody(t, Unsigned(t))

ParseFloat(s) == ParseStripped(Strip(s))

\* str(n) for an int n >= 0
RECURSIVE IntToStr(_)
IntToStr(n) == IF n < 10 THEN <<Digits[n + 1]>> ELSE IntToStr(n \div 10) \o <<Digits[(n % 10) + 1]>>

RECURSIVE ZeroPad(_, _)
ZeroPad(s, width) == IF Len(s) >= width THEN s ELSE ZeroPad(<<"0">> \o s, width)

\* int(x) for a float x: truncation towards zero
Trunc(x) == IF x[1] >= 0 THEN x[1] \div x[2] ELSE -((-x[1]) \div x[2])

\* the integer that format(x, ".0f") prints for x >= 0: round half to even
RoundHalfEven(x) ==
    LET q == x[1] \div x[2]
        twice == 2 * (x[1] % x[2])
    IN  IF twice < x[2] THEN q
        ELSE IF twice > x[2] THEN q + 1
        ELSE IF q % 2 = 0 THEN q ELSE q + 1

\* format(n, ","): the digits of n >= 0 in groups of three
RECURSIVE GroupThousands(_)
GroupThousands(n) ==
    IF n < 1000 THEN IntToStr(n)
    ELSE GroupThousands(n \div 1000) \o <<",">> \o ZeroPad(IntToStr(n % 1000), 3)

\* f"{citi:,.0f}"
FormatCiti(citi) == GroupThousands(RoundHalfEven(citi))

\* str(x) for a float x >= 0 with a finite decimal expansion, in the range where
\* repr uses positional notation (1e-4 <= x < 1e16, or x = 0)
MaxDecimals == 5
FloatToStr(x) ==
    LET k == CHOOSE j \in 0..MaxDecimals :
                 /\ Pow10(j) % x[2] = 0
                 /\ \A i \in 0..(j - 1) : Pow10(i) % x[2] /= 0
        scaled == x[1] * (Pow10(k) \div x[2])
        whole == IntToStr(scaled \div Pow10(k))
        frac == IF k = 0 THEN <<"0">> ELSE ZeroPad(IntToStr(scaled % Pow10(k)), k)
    IN  whole \o <<".">> \o frac

(***************************************************************************)
(* core/history.py: the report and the history entry                       *)
(***************************************************************************)
LowerLetters == <<"a", "b", "i", "n", "o", "v">>
UpperLetters == <<"A", "B", "I", "N", "O", "V">>
LetterSet == {LowerLetters[i] : i \in 1..Len(LowerLetters)}
                 \cup {UpperLetters[i] : i \in 1..Len(UpperLetters)}
LetterIndex(c) == CHOOSE i \in 1..Len(LowerLetters) : LowerLetters[i] = c \/ UpperLetters[i] = c
ToUpper(c) == IF c \in LetterSet THEN UpperLetters[LetterIndex(c)] ELSE c
ToLower(c) == IF c \in LetterSet THEN LowerLetters[LetterIndex(c)] ELSE c

TitleFirstOnly(s) == [i \in 1..Len(s) |-> IF i = 1 THEN ToUpper(s[i]) ELSE ToLower(s[i])]

\* str.title(): a letter that follows a letter is lowered, any other letter is raised
Title(s) ==
    [i \in 1..Len(s) |->
        IF i > 1 /\ s[i - 1] \in LetterSet THEN ToLower(s[i]) ELSE ToUpper(s[i])]

\* " ".join(filter(None, parts))
RECURSIVE JoinNonEmpty(_)
JoinNonEmpty(parts) ==
    IF parts = <<>> THEN <<>>
    ELSE LET rest == JoinNonEmpty(Tail(parts))
         IN  IF Head(parts) = <<>> THEN rest
             ELSE IF rest = <<>> THEN Head(parts)
             ELSE Head(parts) \o <<" ">> \o rest

\* The report is one str built by an f-string: the record holds the interpolated
\* values in the order of the lines.  The argument risk is not used by the code.
build_full_report(surname, name, patronymic, gender, dob_str, study_str, age_str, d_dimer, interleukins, lymphocytes, ct_str, citi, risk) ==
    LET full_name == IF surname = <<>> /\ name = <<>> /\ patronymic = <<>>
                     THEN UNKNOWN_STATUS
                     ELSE Title(JoinNonEmpty(<<surname, name, patronymic>>))
        parsed == ParseFloat(RemovePercent(ct_str))
        ct_value == IF ct_str /= UNKNOWN_STATUS /\ parsed.ok THEN parsed.val ELSE RInt(0)
    IN  [full_name |-> full_name,
         gender |-> gender,
         dob |-> dob_str,
         age |-> age_str,
         study |-> study_str,
         d_dimer |-> FloatToStr(d_dimer),
         interleukins |-> FloatToStr(interleukins),
         lymphocytes |-> FloatToStr(lymphocytes),
         ct |-> ct_str,
         citi |-> FormatCiti(citi),
         interpretation |-> get_interpretation_text(citi, ct_value)]

\* hash(full_report) % 10000, formatted with four digits: a term over the report
HashFragment(report) == [hash_of |-> report]

(***************************************************************************)
(* Python values held in containers of Any, and their JSON text            *)
(*   a dict is the sequence of its <<key, value>> items in insertion order *)
(***************************************************************************)
PyStr(s) == [py |-> "str", v |-> s]
PyFloat(x) == [py |-> "float", v |-> x]
PyInt(n) == [py |-> "int", v |-> n]
PyDict(items) == [py |-> "dict", v |-> items]

HasKey(d, key) == \E i \in 1..Len(d.v) : d.v[i][1] = key

\* d[key] for a key that is present
Item(d, key) == d.v[CHOOSE i \in 1..Len(d.v) : d.v[i][1] = key][2]

\* d.get(key, default)
Get(d, key, default) == IF HasKey(d, key) THEN Item(d, key) ELSE default

\* t_id and t_stamp are the two readings of datetime.now(): strftime keeps the
\* second of the first, isoformat the whole of the second
create_history_entry(report, raw_data, t_id, t_stamp) ==
    PyDict(<< <<"id", PyStr(<<t_id.sec, HashFragment(report)>>)>>,
              <<"timestamp", PyStr(t_stamp)>>,
              <<"full_report", PyStr(report)>>,
              <<"raw_data", raw_data>> >>)

\* json.dump writing a float with format(x, ".0f") instead of repr
RECURSIVE ToJsonRounded(_)
ToJsonRounded(x) ==
    CASE x.py = "str" -> [t |-> "string", text |-> x.v]
      [] x.py = "float" -> [t |-> "number", text |-> IntToStr(RoundHalfEven(x.v))]
      [] x.py = "int" -> [t |-> "number", text |-> IntToStr(x.v)]
      [] x.py = "dict" -> [t |-> "object",
                           members |-> [i \in 1..Len(x.v) |->
                                           <<x.v[i][1], ToJsonRounded(x.v[i][2])>>]]

\* json.dump of one value: a float is written by repr, a dict as an object
\* with its items in order
RECURSIVE ToJson(_)
ToJson(x) ==
    CASE x.py = "str" -> [t |-> "string", text |-> x.v]
      [] x.py = "float" -> [t |-> "number", text |-> FloatToStr(x.v)]
      [] x.py = "int" -> [t |-> "number", text |-> IntToStr(x.v)]
      [] x.py = "dict" -> [t |-> "object",
                           members |-> [i \in 1..Len(x.v) |-> <<x.v[i][1], ToJson(x.v[i][2])>>]]

\* json.load of one value: a number with a fraction is a float, any other an int
RECURSIVE FromJson(_)
FromJson(j) ==
    CASE j.t = "string" -> PyStr(j.text)
      [] j.t = "number" ->
            IF \E i \in 1..Len(j.text) : j.text[i] = "."
            THEN PyFloat(ParseFloat(j.text).val)
            ELSE PyInt(ParseFloat(j.text).val[1])
      [] j.t = "object" -> PyDict([i \in 1..Len(j.members) |->
                                      <<j.members[i][1], FromJson(j.members[i][2])>>])

\* json.dump(history, f): the document of a list
DumpList(history) == [t |-> "array", items |-> [i \in 1..Len(history) |-> ToJson(history[i])]]

(***************************************************************************)
(* The backing file and core/history.py: load_history, save_history        *)
(***************************************************************************)
NoDoc == [t |-> "null"]
AbsentFile == [kind |-> "absent", doc |-> NoDoc]
BadUtf8File == [kind |-> "bad_utf8", doc |-> NoDoc]   \* bytes that are not UTF-8
BadJsonFile == [kind |-> "bad_json", doc |-> NoDoc]   \* UTF-8 text that is not JSON
JsonFile(doc) == [kind |-> "json", doc |-> doc]
EmptyObjectDoc == [t |-> "object", members |-> <<>>]  \* the document {}

\* load_history without the os.path.exists test and with an except clause that
\* does not name IOError: the open() of a missing file raises
load_history_unchecked(f) ==
    CASE f.kind = "absent" -> [result |-> <<>>, logged |-> <<>>, exc |-> "FileNotFoundError"]
      [] f.kind = "bad_utf8" ->
            [result |-> <<>>, logged |-> <<>>, exc |-> "UnicodeDecodeError"]
      [] f.kind = "bad_json" ->
            [result |-> <<>>, logged |-> <<ERROR_LOAD_HISTORY>>, exc |-> "none"]
      [] f.kind = "json" ->
            [result |-> IF f.doc.t = "array"
                        THEN [i \in 1..Len(f.doc.items) |-> FromJson(f.doc.items[i])]
                        ELSE <<>>,
             logged |-> <<>>, exc |-> "none"]

\* load_history: the list read, the records logged and the exception that escapes.
\*   absent file: [] at once;  text that is not JSON: JSONDecodeError, caught and logged;
\*   bytes that are not UTF-8: UnicodeDecodeError, a ValueError that the except clause
\*   (json.JSONDecodeError, IOError) does not name, so it escapes;
\*   JSON whose top level is not a list: [] with nothing logged.
load_history(f) ==
    CASE f.kind = "absent" -> [result |-> <<>>, logged |-> <<>>, exc |-> "none"]
      [] f.kind = "bad_utf8" ->
            [result |-> <<>>, logged |-> <<>>, exc |-> "UnicodeDecodeError"]
      [] f.kind = "bad_json" ->
            [result |-> <<>>, logged |-> <<ERROR_LOAD_HISTORY>>, exc |-> "none"]
      [] f.kind = "json" ->
            [result |-> IF f.doc.t = "array"
                        THEN [i \in 1..Len(f.doc.items) |-> FromJson(f.doc.items[i])]
                        ELSE <<>>,
             logged |-> <<>>, exc |-> "none"]

\* the outcomes of open(history_file, "w") followed by json.dump
SaveOutcomes == {"ok", "open_fails", "write_fails"}

\* save_history that opens the file with mode "a": the dump follows what the file held
save_history_append_mode(history, f, outcome) ==
    CASE outcome = "ok" ->
            [file |-> IF f.kind = "absent" THEN JsonFile(DumpList(history)) ELSE BadJsonFile,
             logged |-> <<>>, exc |-> "none"]
      [] outcome = "open_fails" ->
            [file |-> f, logged |-> <<ERROR_SAVE_HISTORY>>, exc |-> "IOError"]
      [] outcome = "write_fails" ->
            [file |-> BadJsonFile, logged |-> <<ERROR_SAVE_HISTORY>>, exc |-> "IOError"]

\* save_history: the file afterwards, the records logged and the exception re-raised.
\*   open_fails: open() raises and the file is as before;
\*   write_fails: the file was truncated by open() and the dump did not complete.
save_history(history, f, outcome) ==
    CASE outcome = "ok" ->
            [file |-> JsonFile(DumpList(history)), logged |-> <<>>, exc |-> "none"]
      [] outcome = "open_fails" ->
            [file |-> f, logged |-> <<ERROR_SAVE_HISTORY>>, exc |-> "IOError"]
      [] outcome = "write_fails" ->
            [file |-> BadJsonFile, logged |-> <<ERROR_SAVE_HISTORY>>, exc |-> "IOError"]

(***************************************************************************)
(* ui/main_window.py: CITICalculatorApp                                    *)
(***************************************************************************)
QDate(y, m, d) == [y |-> y, m |-> m, d |-> d]
DEFAULT_DATE_BORN == QDate(1985, 1, 1)
\* QDate.currentDate() when config.py is imported
Today == QDate(2024, 6, 15)
DEFAULT_DATE_RESEARCH == Today

DaysInMonth(y, m) ==
    IF m \in {4, 6, 9, 11} THEN 30
    ELSE IF m = 2 THEN (IF (y % 4 = 0 /\ y % 100 /= 0) \/ y % 400 = 0 THEN 29 ELSE 28)
    ELSE 31

\* QDate.isValid()
IsValid(date) == date.m \in 1..12 /\ date.d \in 1..DaysInMonth(date.y, date.m)

\* QDate.toString(DATE_FORMAT) with DATE_FORMAT = "dd.MM.yyyy"
DateToString(date) ==
    ZeroPad(IntToStr(date.d), 2) \o <<".">> \o ZeroPad(IntToStr(date.m), 2)
        \o <<".">> \o ZeroPad(IntToStr(date.y), 4)

Max(a, b) == IF a >= b THEN a ELSE b

\* calculate_age taking a year off on the birthday itself
calculate_age_le(birth, study) ==
    IF ~IsValid(birth) \/ ~IsValid(study) THEN 0
    ELSE LET years == study.y - birth.y
             before == study.m < birth.m \/ (study.m = birth.m /\ study.d <= birth.d)
         IN  Max(0, IF before THEN years - 1 ELSE years)

calculate_age(birth, study) ==
    IF ~IsValid(birth) \/ ~IsValid(study) THEN 0
    ELSE LET years == study.y - birth.y
             before == study.m < birth.m \/ (study.m = birth.m /\ study.d < birth.d)
         IN  Max(0, IF before THEN years - 1 ELSE years)

\* get_float(key): the text of the field, stripped, "," replaced by ".", parsed;
\* the default 0.0 for an empty or unparsable text
FloatOr(t, parsed, default) == IF t = <<>> \/ ~parsed.ok THEN default ELSE parsed.val
FloatOfText(t, default) == FloatOr(t, ParseFloat(t), default)
get_float(text) == FloatOfText(ReplaceComma(Strip(text)), RInt(0))

\* is_ct_valid: an empty field is valid, a number must be whole and within 0..100
InRange(t, parsed) ==
    IF t = <<>> THEN TRUE
    ELSE IF ~parsed.ok THEN FALSE
    ELSE /\ RLe(RInt(MIN_CT_PERCENT), parsed.val)
         /\ RLe(parsed.val, RInt(MAX_CT_PERCENT))
         /\ RIsInteger(parsed.val)
CtTextValid(t) == InRange(t, ParseFloat(ReplaceComma(t)))
is_ct_valid(text) == CtTextValid(Strip(text))

\* the placeholder of the age display (an em dash in the source)
AGE_DASH == <<"-">>

NoReport == [set |-> FALSE, text |-> <<>>]

InitForm ==
    [surname |-> <<>>, name |-> <<>>, patronymic |-> <<>>,
     gender |-> "not_specified",
     dob_unknown |-> TRUE, dob |-> DEFAULT_DATE_BORN, dob_enabled |-> FALSE,
     study_date_unknown |-> TRUE, study_date |-> DEFAULT_DATE_RESEARCH,
     study_date_enabled |-> FALSE,
     d_dimer |-> <<>>, interleukins |-> <<>>, lymphocytes |-> <<>>, ct_percent |-> <<>>]

\* the widgets as __init__ leaves them, before its closing on_input_changed()
ConstructedUi ==
    [age_display |-> <<>>,
     instruction_text |-> INSTRUCTION_DEFAULT, instruction_visible |-> TRUE,
     result_value |-> <<>>, result_color |-> "", result_visible |-> FALSE,
     risk_label |-> <<>>, risk_visible |-> FALSE,
     calculate_enabled |-> FALSE, reset_enabled |-> FALSE,
     copy_enabled |-> FALSE, pdf_enabled |-> FALSE]

\* the test of the three values with >= in the place of >
AllFilledOrZero(f) ==
    /\ RLe(RInt(0), get_float(f.d_dimer))
    /\ RLe(RInt(0), get_float(f.interleukins))
    /\ RLe(RInt(0), get_float(f.lymphocytes))

AllFilled(f) ==
    /\ RGt(get_float(f.d_dimer), RInt(0))
    /\ RGt(get_float(f.interleukins), RInt(0))
    /\ RGt(get_float(f.lymphocytes), RInt(0))

\* on_input_changed that also hides the result of the calculation before
on_input_changed_hides_result(f, u) ==
    [u EXCEPT
        !.age_display = IF ~f.dob_unknown /\ ~f.study_date_unknown
                        THEN IntToStr(calculate_age(f.dob, f.study_date))
                        ELSE AGE_DASH,
        !.instruction_text = INSTRUCTION_DEFAULT,
        !.instruction_visible = ~AllFilled(f),
        !.calculate_enabled = AllFilled(f),
        !.result_visible = FALSE, !.risk_visible = FALSE]

\* on_input_changed: the widgets afterwards
on_input_changed(f, u) ==
    [u EXCEPT
        !.age_display = IF ~f.dob_unknown /\ ~f.study_date_unknown
                        THEN IntToStr(calculate_age(f.dob, f.study_date))
                        ELSE AGE_DASH,
        !.instruction_text = INSTRUCTION_DEFAULT,
        !.instruction_visible = ~AllFilled(f),
        !.calculate_enabled = AllFilled(f)]

\* show_error that shows the message and hides the result but leaves the buttons alone
show_error_keeps_buttons(u, msg) ==
    [u EXCEPT !.instruction_text = msg, !.instruction_visible = TRUE,
              !.result_visible = FALSE, !.risk_visible = FALSE]

\* show_error(msg): the widgets afterwards
show_error(u, msg) ==
    [u EXCEPT !.instruction_text = msg, !.instruction_visible = TRUE,
              !.result_visible = FALSE, !.risk_visible = FALSE,
              !.copy_enabled = FALSE, !.pdf_enabled = FALSE]

\* what a handler did besides changing the state: the exception that escaped it,
\* the records it logged and the message boxes it showed
Outcome(op, exc, logged, boxes) == [op |-> op, exc |-> exc, logged |-> logged, boxes |-> boxes]

GenderText(f) ==
    IF f.gender = "male" THEN GENDER_MALE
    ELSE IF f.gender = "female" THEN GENDER_FEMALE
    ELSE UNKNOWN_STATUS

\* the local variables of on_calculate once the inputs have passed both checks:
\* the three values read, then the index, then its band and the CT value
Collected(f, d_dimer, interleukins, lymphocytes, citi, band, ct_val, ct_text) ==
    [d_dimer |-> d_dimer, interleukins |-> interleukins, lymphocytes |-> lymphocytes,
     citi |-> citi,
     risk |-> band[1],
     color |-> band[2],
     ct_val |-> ct_val,
     full_interpretation |-> get_interpretation_text(citi, ct_val),
     surname |-> Strip(f.surname), name |-> Strip(f.name),
     patronymic |-> Strip(f.patronymic),
     gender |-> GenderText(f),
     dob_str |-> IF f.dob_unknown THEN UNKNOWN_STATUS ELSE DateToString(f.dob),
     study_str |-> IF f.study_date_unknown THEN UNKNOWN_STATUS
                   ELSE DateToString(f.study_date),
     age_str |-> IF f.dob_unknown \/ f.study_date_unknown THEN UNKNOWN_STATUS
                 ELSE IntToStr(calculate_age(f.dob, f.study_date))
                          \o <<" ", "l", "e", "t">>,
     ct_str |-> IF ct_text = <<>> THEN UNKNOWN_STATUS
                ELSE IntToStr(Trunc(ParseFloat(ReplaceComma(ct_text)).val))
                         \o <<" ", "%">>]

Interpreted(f, d_dimer, interleukins, lymphocytes, citi) ==
    Collected(f, d_dimer, interleukins, lymphocytes, citi, interpret_citi(citi),
              get_float(f.ct_percent), Strip(f.ct_percent))

Measured(f, d_dimer, interleukins, lymphocytes) ==
    Interpreted(f, d_dimer, interleukins, lymphocytes,
                calculate_citi(d_dimer, interleukins, lymphocytes))

CalcLocals(f) ==
    Measured(f, get_float(f.d_dimer), get_float(f.interleukins), get_float(f.lymphocytes))

\* the report that on_calculate assigns to self.full_report
ReportOf(c) ==
    build_full_report(c.surname, c.name, c.patronymic, c.gender, c.dob_str, c.study_str,
                      c.age_str, c.d_dimer, c.interleukins, c.lymphocytes, c.ct_str,
                      c.citi, c.risk)

\* the dict raw_data of on_calculate
RawDataOf(c) ==
    PyDict(<< <<SURNAME_KEY, PyStr(c.surname)>>,
              <<NAME_KEY, PyStr(c.name)>>,
              <<PATRONYMIC_KEY, PyStr(c.patronymic)>>,
              <<GENDER, PyStr(c.gender)>>,
              <<"dob", PyStr(c.dob_str)>>,
              <<"study_date", PyStr(c.study_str)>>,
              <<D_DIMER_KEY, PyFloat(c.d_dimer)>>,
              <<INTERLEUKINS_KEY, PyFloat(c.interleukins)>>,
              <<LYMPHOCYTES_KEY, PyFloat(c.lymphocytes)>>,
              <<CT_PERCENT_KEY, PyStr(c.ct_str)>>,
              <<"citi", PyFloat(c.citi)>>,
              <<"risk", PyStr(c.risk)>> >>)

(***************************************************************************)
(* The clock                                                               *)
(***************************************************************************)
MaxNow == 1             \* the last tick of the clock
TicksPerSecond == 1     \* ticks in one second, the grain of strftime("%Y%m%d_%H%M%S")
MaxHistory == 2         \* no calculation is made once the file holds this many entries

Clock(t) == [tick |-> t, sec |-> t \div TicksPerSecond]

(***************************************************************************)
(* on_calculate                                                            *)
(*   t_id and t_stamp are the two readings of datetime.now() in            *)
(*   create_history_entry, outcome the fate of the write in save_history   *)
(***************************************************************************)
\* the state of the application a handler works on, and what it did
AppState(f, u, fr, fl, out) == [form |-> f, ui |-> u, full_report |-> fr, file |-> fl, last |-> out]

\* the result and the risk label are set and shown
ShowResult(u, c) ==
    [u EXCEPT !.result_value = FormatCiti(c.citi),
              !.result_color = c.color,
              !.risk_label = c.full_interpretation,
              !.result_visible = TRUE,
              !.risk_visible = TRUE]

\* the end of on_calculate, given what load_history and save_history did
Stored(f, shown, report, fl, loaded, saved) ==
    IF loaded.exc /= "none"
    \* not an OSError: it leaves on_calculate before the buttons are enabled
    THEN AppState(f, shown, report, fl,
                  Outcome("on_calculate", loaded.exc, loaded.logged, <<>>))
    ELSE IF saved.exc /= "none"
    \* the except clause calls QMessageBox.critical(self, text) without the title:
    \* the call raises TypeError, no box is shown and the buttons stay as they were
    THEN AppState(f, shown, report, saved.file,
                  Outcome("on_calculate", "TypeError", loaded.logged \o saved.logged, <<>>))
    ELSE AppState(f, [shown EXCEPT !.reset_enabled = TRUE, !.copy_enabled = TRUE,
                                   !.pdf_enabled = TRUE],
                  report, saved.file,
                  Outcome("on_calculate", "none", loaded.logged \o saved.logged, <<>>))

\* current_history.append(history_entry); save_history(current_history)
Storing(f, shown, text, fl, loaded, history_entry, outcome) ==
    Stored(f, shown, [set |-> TRUE, text |-> text], fl, loaded,
           save_history(Append(loaded.result, history_entry), fl, outcome))

\* the try block: create_history_entry, load_history
Reported(f, shown, text, raw_data, fl, t_id, t_stamp, outcome) ==
    Storing(f, shown, text, fl, load_history(fl),
            create_history_entry(text, raw_data, t_id, t_stamp), outcome)

\* on_calculate past its two checks
Calculated(f, u, fl, c, t_id, t_stamp, outcome) ==
    Reported(f, ShowResult(u, c), ReportOf(c), RawDataOf(c), fl, t_id, t_stamp, outcome)

\* on_calculate without the call of is_ct_valid
on_calculate_any_ct(f, u, fr, fl, t_id, t_stamp, outcome) ==
    IF ~AllFilled(f)
    THEN AppState(f, u, fr, fl, Outcome("on_calculate", "none", <<>>, <<>>))
    ELSE Calculated(f, u, fl, CalcLocals(f), t_id, t_stamp, outcome)

on_calculate(f, u, fr, fl, t_id, t_stamp, outcome) ==
    IF ~AllFilled(f)
    THEN AppState(f, u, fr, fl, Outcome("on_calculate", "none", <<>>, <<>>))
    ELSE IF ~is_ct_valid(f.ct_percent)
    THEN AppState(f, show_error(u, ERROR_MESSAGE_CT), fr, fl,
                  Outcome("on_calculate", "none", <<>>, <<>>))
    ELSE Calculated(f, u, fl, CalcLocals(f), t_id, t_stamp, outcome)

\* reset_form that clears the fields and leaves the result and the buttons alone
reset_form_fields_only(f, u) ==
    [form |-> [f EXCEPT !.surname = <<>>, !.name = <<>>, !.patronymic = <<>>,
                        !.gender = "not_specified",
                        !.dob_unknown = TRUE, !.dob_enabled = FALSE,
                        !.study_date_unknown = TRUE, !.study_date_enabled = FALSE,
                        !.d_dimer = <<>>, !.interleukins = <<>>,
                        !.lymphocytes = <<>>, !.ct_percent = <<>>],
     ui |-> [u EXCEPT !.age_display = AGE_DASH, !.instruction_visible = TRUE,
                      !.calculate_enabled = FALSE]]

\* reset_form, with the on_input_changed() that ends it
reset_form(f, u) ==
    LET cleared == [f EXCEPT !.surname = <<>>, !.name = <<>>, !.patronymic = <<>>,
                             !.gender = "not_specified",
                             !.dob_unknown = TRUE, !.dob_enabled = FALSE,
                             !.study_date_unknown = TRUE, !.study_date_enabled = FALSE,
                             !.d_dimer = <<>>, !.interleukins = <<>>,
                             !.lymphocytes = <<>>, !.ct_percent = <<>>]
        hidden == [u EXCEPT !.age_display = AGE_DASH,
                            !.result_visible = FALSE, !.risk_visible = FALSE,
                            !.instruction_text = INSTRUCTION_DEFAULT,
                            !.instruction_visible = TRUE,
                            !.reset_enabled = FALSE, !.copy_enabled = FALSE,
                            !.pdf_enabled = FALSE]
    IN  [form |-> cleared, ui |-> on_input_changed(cleared, hidden)]

\* QDate.fromString(s, DATE_FORMAT): an invalid date unless s reads dd.MM.yyyy
InvalidDate == QDate(0, 0, 0)
StringToDate(s) ==
    IF /\ Len(s) = 10
       /\ s[3] = "." /\ s[6] = "."
       /\ \A i \in {1, 2, 4, 5, 7, 8, 9, 10} : s[i] \in DigitSet
    THEN LET date == QDate(DigitsVal(SubSeq(s, 7, 10)), DigitsVal(SubSeq(s, 4, 5)),
                           DigitsVal(SubSeq(s, 1, 2)))
         IN  IF IsValid(date) THEN date ELSE InvalidDate
    ELSE InvalidDate

\* str(x) for a value read from raw_data
PyToStr(x) ==
    CASE x.py = "str" -> x.v
      [] x.py = "float" -> FloatToStr(x.v)
      [] x.py = "int" -> IntToStr(x.v)

\* load_entry_to_form up to its closing on_calculate(): the input widgets afterwards.
\* The gender is looked up under "gender", a key on_calculate does not write; the CT
\* field is set only when the entry has a CT value.
load_entry_to_form(entry, f) ==
    LET d == Item(entry, "raw_data")
        gender == Get(d, "gender", PyStr(UNKNOWN_STATUS)).v
        dob == Get(d, "dob", PyStr(UNKNOWN_STATUS)).v
        study == Get(d, "study_date", PyStr(UNKNOWN_STATUS)).v
        dob_ok == dob /= UNKNOWN_STATUS /\ IsValid(StringToDate(dob))
        study_ok == study /= UNKNOWN_STATUS /\ IsValid(StringToDate(study))
        ct_val == Get(d, CT_PERCENT_KEY, PyStr(UNKNOWN_STATUS)).v
    IN  [f EXCEPT
            !.surname = Get(d, SURNAME_KEY, PyStr(<<>>)).v,
            !.name = Get(d, NAME_KEY, PyStr(<<>>)).v,
            !.patronymic = Get(d, PATRONYMIC_KEY, PyStr(<<>>)).v,
            !.gender = IF gender = GENDER_MALE THEN "male"
                       ELSE IF gender = GENDER_FEMALE THEN "female"
                       ELSE "not_specified",
            !.dob_unknown = ~dob_ok,
            !.dob_enabled = dob_ok,
            !.dob = IF dob_ok THEN StringToDate(dob) ELSE @,
            !.study_date_unknown = ~study_ok,
            !.study_date_enabled = study_ok,
            !.study_date = IF study_ok THEN StringToDate(study) ELSE @,
            !.d_dimer = PyToStr(Get(d, D_DIMER_KEY, PyStr(<<>>))),
            !.interleukins = PyToStr(Get(d, INTERLEUKINS_KEY, PyStr(<<>>))),
            !.lymphocytes = PyToStr(Get(d, LYMPHOCYTES_KEY, PyStr(<<>>))),
            !.ct_percent = IF ct_val /= UNKNOWN_STATUS THEN RemovePercent(ct_val) ELSE @]

(***************************************************************************)
(* ui/history_dialog.py: HistoryDialog                                     *)
(***************************************************************************)
PyNone == [py |-> "None", v |-> <<>>]

\* str.capitalize()
Capitalize(s) == [i \in 1..Len(s) |-> IF i = 1 THEN ToUpper(s[i]) ELSE ToLower(s[i])]

\* the number held by an int or a float
NumVal(x) == IF x.py = "int" THEN RInt(x.v) ELSE x.v

\* the six cells populate_table writes for one entry; the save date is printed
\* to the minute
RowOf(entry) ==
    LET raw == Item(entry, "raw_data")
        surname == Strip(Get(raw, SURNAME_KEY, PyStr(<<>>)).v)
        name == Strip(Get(raw, NAME_KEY, PyStr(<<>>)).v)
        patronymic == Strip(Get(raw, PATRONYMIC_KEY, PyStr(<<>>)).v)
    IN  [save_date |-> Item(entry, "timestamp").v.sec \div 60,
         patient |-> IF surname = <<>> /\ name = <<>> /\ patronymic = <<>>
                     THEN UNKNOWN_STATUS
                     ELSE JoinNonEmpty(<<Capitalize(surname), Capitalize(name),
                                         Capitalize(patronymic)>>),
         dob |-> Get(raw, "dob", PyStr(UNKNOWN_STATUS)).v,
         study_date |-> Get(raw, "study_date", PyStr(UNKNOWN_STATUS)).v,
         citi |-> FormatCiti(NumVal(Get(raw, "citi", PyInt(0)))),
         risk |-> Get(raw, "risk", PyStr(<<>>)).v]

\* populate_table: the rows of the table
populate_table(history) == [i \in 1..Len(history) |-> RowOf(history[i])]

\* sel is the row get_selected_index returns, -1 when no row is selected
ClosedDialog ==
    [open |-> FALSE, history |-> <<>>, table |-> <<>>, sel |-> -1,
     open_enabled |-> FALSE, delete_enabled |-> FALSE, selected_entry |-> PyNone]

\* a deletion that moves the reports and raw data of the later entries one place up
\* and leaves the ids and timestamps where they were
DeleteAtShifting(history, index) ==
    [i \in 1..(Len(history) - 1) |->
        IF i <= index THEN history[i]
        ELSE PyDict(<< <<"id", Item(history[i], "id")>>,
                       <<"timestamp", Item(history[i], "timestamp")>>,
                       <<"full_report", Item(history[i + 1], "full_report")>>,
                       <<"raw_data", Item(history[i + 1], "raw_data")>> >>)]

\* del self.history[index], index counted from 0
DeleteAt(history, index) ==
    [i \in 1..(Len(history) - 1) |-> IF i <= index THEN history[i] ELSE history[i + 1]]

\* the first line export_history writes: the titles of the eleven columns
EXPORT_HEADER ==
    <<"Data sohraneniya", "FIO", "BIRTH_DATE", "RESEARCH_DATE", "GENDER", "D_DIMER_DESC",
      "INTERLEUKINS_DESC", "LYMPHOCYTES_DESC", "CT_PERCENT_DESC", "CITI", "Risk">>

\* f"{x:.0f}"
FormatFixed0(x) == IntToStr(RoundHalfEven(NumVal(x)))

\* the eleven fields export_history writes for one entry; d is its raw_data and
\* shown the save date and the full name, built as populate_table builds them
ExportFields(d, shown) ==
    <<shown.save_date,
      shown.patient,
      PyToStr(Get(d, "dob", PyStr(UNKNOWN_STATUS))),
      PyToStr(Get(d, "study_date", PyStr(UNKNOWN_STATUS))),
      PyToStr(Get(d, "gender", PyStr(UNKNOWN_STATUS))),
      PyToStr(Get(d, D_DIMER_KEY, PyInt(0))),
      PyToStr(Get(d, INTERLEUKINS_KEY, PyInt(0))),
      PyToStr(Get(d, LYMPHOCYTES_KEY, PyInt(0))),
      PyToStr(Get(d, CT_PERCENT_KEY, PyStr(UNKNOWN_STATUS))),
      FormatFixed0(Get(d, "citi", PyInt(0))),
      PyToStr(Get(d, "risk", PyStr(<<>>)))>>

ExportRow(entry) == ExportFields(Item(entry, "raw_data"), RowOf(entry))

\* the CSV file: none written, or its name and its lines
NoCsv == [written |-> FALSE, path |-> <<>>, rows |-> <<>>]
CsvSuffix == <<".", "c", "s", "v">>
CsvPath(path) ==
    IF Len(path) >= 4 /\ SubSeq(path, Len(path) - 3, Len(path)) = CsvSuffix
    THEN path
    ELSE path \o CsvSuffix
\* the rows written from the last entry to the first
CsvLinesNewestFirst(history, n) ==
    <<EXPORT_HEADER>> \o [i \in 1..n |-> ExportRow(history[Len(history) + 1 - i])]

CsvLines(history, n) == <<EXPORT_HEADER>> \o [i \in 1..n |-> ExportRow(history[i])]

ExportOutcomes == {"ok", "open_fails", "write_fails"}
ExportPaths == {<<>>, <<"o", "u", "t">>, <<"a", ".", "c", "s", "v">>}

\* export_history: the file written and what the handler did.  path is the answer
\* of QFileDialog.getSaveFileName, empty when the user cancels; when a write fails
\* the file keeps the header and the first n rows.
export_history(history, path, outcome, n) ==
    IF history = <<>>
    THEN [csv |-> NoCsv,
          last |-> Outcome("export_history", "none", <<>>,
                           << <<"information", NO_HISTORY_MESSAGE>> >>)]
    ELSE IF path = <<>>
    THEN [csv |-> NoCsv, last |-> Outcome("export_history", "none", <<>>, <<>>)]
    ELSE IF outcome = "open_fails"
    THEN [csv |-> NoCsv,
          last |-> Outcome("export_history", "none", <<ERROR_EXPORT_HISTORY_IO>>,
                           << <<"critical", ERROR_EXPORT_HISTORY_IO>> >>)]
    ELSE IF outcome = "write_fails"
    THEN [csv |-> [written |-> TRUE, path |-> CsvPath(path), rows |-> CsvLines(history, n)],
          last |-> Outcome("export_history", "none", <<ERROR_EXPORT_HISTORY_IO>>,
                           << <<"critical", ERROR_EXPORT_HISTORY_IO>> >>)]
    ELSE [csv |-> [written |-> TRUE, path |-> CsvPath(path),
                   rows |-> CsvLines(history, Len(history))],
          last |-> Outcome("export_history", "none", <<>>,
                           << <<"information", "exported">> >>)]

\* the answers to QMessageBox.question
Replies == {"Yes", "No"}

\* delete_selected: the dialog and the file afterwards, and what the handler did.
\*   del raises IndexError when the list is shorter than the table;
\*   an IOError of save_history leaves the handler after the del, before populate_table.
\* A row that is still there after populate_table stays selected.
delete_selected(d, fl, reply, outcome) ==
    LET index == d.sel
        asked == << <<"question", reply>> >>
        shorter == DeleteAt(d.history, index)
        saved == save_history(shorter, fl, outcome)
    IN  IF index < 0
        THEN [dlg |-> d, file |-> fl, last |-> Outcome("delete_selected", "none", <<>>, <<>>)]
        ELSE IF reply /= "Yes"
        THEN [dlg |-> d, file |-> fl, last |-> Outcome("delete_selected", "none", <<>>, asked)]
        ELSE IF index >= Len(d.history)
        THEN [dlg |-> d, file |-> fl,
              last |-> Outcome("delete_selected", "IndexError", <<>>, asked)]
        ELSE IF saved.exc /= "none"
        THEN [dlg |-> [d EXCEPT !.history = shorter], file |-> saved.file,
              last |-> Outcome("delete_selected", saved.exc, saved.logged, asked)]
        ELSE [dlg |-> [d EXCEPT !.history = shorter,
                                !.table = populate_table(shorter),
                                !.sel = IF index < Len(shorter) THEN index ELSE -1,
                                !.open_enabled = FALSE,
                                !.delete_enabled = FALSE],
              file |-> saved.file,
              last |-> Outcome("delete_selected", "none", saved.logged, asked)]

(***************************************************************************)
(* The state machine of the application                                    *)
(***************************************************************************)
NoCall == [fn |-> "none", args |-> <<>>, ret |-> <<>>]

\* the running copies of the application that share the history file; a copy is
\* idle, or it has built its entry and read the file and has yet to write
Writers == {1, 2}
IdleWriter == [pc |-> "idle", current_history |-> <<>>, history_entry |-> PyNone]
NoWriters == [w \in Writers |-> IdleWriter]
Idle == Outcome("__init__", "none", <<>>, <<>>)

\* the files the application may find when it starts
StartFiles ==
    {AbsentFile, BadUtf8File, BadJsonFile, JsonFile(EmptyObjectDoc), JsonFile(DumpList(<<>>))}

\* the user edits a line edit, choosing among texts[key]: textChanged runs
\* on_input_changed
EditText(texts) ==
    /\ ~dlg.open
    /\ \E key \in DOMAIN texts : \E text \in texts[key] :
          /\ text /= form[key]
          /\ form' = [form EXCEPT ![key] = text]
          /\ ui' = on_input_changed(form', ui)
    /\ last' = Outcome("on_input_changed", "none", <<>>, <<>>)
    /\ UNCHANGED <<writers, call, full_report, file, dlg, now>>

\* the entries a calculation would find in the file
StoredCount == Len(load_history(file).result)

\* the main window is left as a handler returned it
Becomes(r) ==
    /\ form' = r.form
    /\ ui' = r.ui
    /\ full_report' = r.full_report
    /\ file' = r.file
    /\ last' = r.last

\* the calculate button: on_calculate, as long as the file holds fewer than cap entries
\* or the CT text is refused, in which case nothing is appended.
\* Both readings of datetime.now() in create_history_entry fall into the same tick.
ClickCalculate(cap) ==
    /\ ~dlg.open
    /\ ui.calculate_enabled
    /\ StoredCount < cap \/ ~is_ct_valid(form.ct_percent)
    /\ \E outcome \in SaveOutcomes :
          Becomes(on_calculate(form, ui, full_report, file, Clock(now), Clock(now), outcome))
    /\ UNCHANGED <<writers, call, dlg, now>>

\* the reset button: reset_form
ClickReset ==
    /\ ~dlg.open
    /\ ui.reset_enabled
    /\ form' = reset_form(form, ui).form
    /\ ui' = reset_form(form, ui).ui
    /\ last' = Outcome("reset_form", "none", <<>>, <<>>)
    /\ UNCHANGED <<writers, call, full_report, file, dlg, now>>

\* the copy button: copy_to_clipboard reads self.full_report
ClickCopy ==
    /\ ~dlg.open
    /\ ui.copy_enabled
    /\ last' = IF full_report.set
               THEN Outcome("copy_to_clipboard", "none", <<>>, << <<"information", "Ok">> >>)
               ELSE Outcome("copy_to_clipboard", "AttributeError", <<>>, <<>>)
    /\ UNCHANGED <<writers, call, form, ui, full_report, file, dlg, now>>

\* the journal button: open_history_journal builds the dialog, which loads the history
ClickJournal ==
    /\ ~dlg.open
    /\ LET loaded == load_history(file)
       IN  IF loaded.exc /= "none"
           THEN /\ dlg' = dlg
                /\ last' = Outcome("open_history_journal", loaded.exc, loaded.logged, <<>>)
           ELSE /\ dlg' = [open |-> TRUE, history |-> loaded.result,
                           table |-> populate_table(loaded.result), sel |-> -1,
                           open_enabled |-> FALSE, delete_enabled |-> FALSE,
                           selected_entry |-> PyNone]
                /\ last' = Outcome("open_history_journal", "none", loaded.logged, <<>>)
    /\ UNCHANGED <<writers, call, form, ui, full_report, file, now>>

\* the user selects another row: on_selection_changed
SelectRow ==
    /\ dlg.open
    /\ \E row \in 0..(Len(dlg.table) - 1) :
          /\ row /= dlg.sel
          /\ dlg' = [dlg EXCEPT !.sel = row, !.open_enabled = TRUE, !.delete_enabled = TRUE]
    /\ last' = Outcome("on_selection_changed", "none", <<>>, <<>>)
    /\ UNCHANGED <<writers, call, form, ui, full_report, file, now>>

\* the user clears the selection: on_selection_changed
ClearSelection ==
    /\ dlg.open
    /\ dlg.sel >= 0
    /\ dlg' = [dlg EXCEPT !.sel = -1, !.open_enabled = FALSE, !.delete_enabled = FALSE]
    /\ last' = Outcome("on_selection_changed", "none", <<>>, <<>>)
    /\ UNCHANGED <<writers, call, form, ui, full_report, file, now>>

\* delete_selected runs, with the user's answer and the fate of the write
RunDeleteSelected ==
    \E reply \in Replies : \E outcome \in SaveOutcomes :
        LET r == delete_selected(dlg, file, reply, outcome)
        IN  /\ dlg' = r.dlg
            /\ file' = r.file
            /\ last' = r.last
            /\ UNCHANGED <<writers, call, form, ui, full_report, now>>

\* the delete button
ClickDelete ==
    /\ dlg.open
    /\ dlg.delete_enabled
    /\ RunDeleteSelected

\* the form filled from an entry and calculated again: what load_entry_to_form
\* leaves, loaded being the input widgets after its setText calls
Reopened(loaded, outcome) ==
    [on_calculate(loaded, IF loaded /= form THEN on_input_changed(loaded, ui) ELSE ui,
                  full_report, file, Clock(now), Clock(now), outcome)
        EXCEPT !.last.op = "load_entry_to_form"]

\* open_selected, and open_history_journal after the dialog was accepted:
\* load_entry_to_form, whose setText calls run on_input_changed when a text
\* changes, and its closing on_calculate
RunOpenSelected ==
    LET index == dlg.sel
    IN  IF index < 0
        THEN /\ last' = Outcome("open_selected", "none", <<>>, <<>>)
             /\ UNCHANGED <<writers, call, form, ui, full_report, file, dlg, now>>
        ELSE IF index >= Len(dlg.history)
        THEN /\ last' = Outcome("open_selected", "IndexError", <<>>, <<>>)
             /\ UNCHANGED <<writers, call, form, ui, full_report, file, dlg, now>>
        ELSE \E outcome \in SaveOutcomes :
                /\ Becomes(Reopened(load_entry_to_form(dlg.history[index + 1], form),
                                    outcome))
                /\ dlg' = ClosedDialog
                /\ UNCHANGED <<writers, call, now>>

\* the open button
ClickOpen ==
    /\ dlg.open
    /\ dlg.open_enabled
    /\ StoredCount < MaxHistory
    /\ RunOpenSelected

\* the dialog after export_history returned r
Exported(history, path, outcome, r) ==
    /\ call' = [fn |-> "export_history", args |-> <<history, path, outcome>>, ret |-> r.csv]
    /\ last' = r.last

\* the export button, with the answer of the file dialog and the fate of the write
ClickExport ==
    /\ dlg.open
    /\ \E path \in ExportPaths : \E outcome \in ExportOutcomes :
       \E n \in 0..Len(dlg.history) :
          /\ outcome = "write_fails" \/ n = Len(dlg.history)
          /\ Exported(dlg.history, path, outcome,
                      export_history(dlg.history, path, outcome, n))
    /\ UNCHANGED <<writers, form, ui, full_report, file, dlg, now>>

\* the close button: accept() with no entry selected
CloseJournal ==
    /\ dlg.open
    /\ dlg' = ClosedDialog
    /\ last' = Outcome("accept", "none", <<>>, <<>>)
    /\ UNCHANGED <<writers, call, form, ui, full_report, file, now>>

\* time passes
Tick ==
    /\ now < MaxNow
    /\ now' = now + 1
    /\ UNCHANGED <<writers, call, form, ui, full_report, file, dlg, last>>

(***************************************************************************)
(* Spec: the history store.  The form starts with the three laboratory     *)
(* values typed in; the user retypes the interleukins, calculates, and     *)
(* works in the journal.                                                   *)
(***************************************************************************)
StoreTexts == [interleukins |-> {<<"1", "0", "0">>, <<"1", "2", "0">>}]

StoreForm ==
    [InitForm EXCEPT !.d_dimer = <<"5", "0", "0", "0">>, !.interleukins = <<"1", "0", "0">>, !.lymphocytes = <<"1">>]

Init ==
    /\ call = NoCall
    /\ form = StoreForm
    /\ ui = on_input_changed(StoreForm, ConstructedUi)
    /\ full_report = NoReport
    /\ file \in StartFiles
    /\ dlg = ClosedDialog
    /\ now = 0
    /\ last = Idle
    /\ writers = NoWriters

Next ==
    \/ EditText(StoreTexts)
    \/ ClickCalculate(MaxHistory)
    \/ ClickJournal
    \/ SelectRow
    \/ ClearSelection
    \/ ClickDelete
    \/ ClickOpen
    \/ CloseJournal
    \/ Tick

Spec == Init /\ [][Next]_vars

(***************************************************************************)
(* SpecJournal: the journal over a history file written by earlier runs:   *)
(* entries of calculations and an entry whose raw_data has few fields      *)
(***************************************************************************)
\* a form with a patient, the dates and the CT value filled in
PatientForm ==
    [StoreForm EXCEPT !.surname = <<"i", "v", "a", "n">>, !.gender = "male",
                      !.dob_unknown = FALSE, !.dob_enabled = TRUE,
                      !.dob = QDate(1990, 6, 15),
                      !.study_date_unknown = FALSE, !.study_date_enabled = TRUE,
                      !.ct_percent = <<"7", "0">>]

\* the entry on_calculate stores for the form f at the tick t
StoredEntry(c, t) == create_history_entry(ReportOf(c), RawDataOf(c), Clock(t), Clock(t))
EntryOf(f, t) == StoredEntry(CalcLocals(f), t)

\* an entry whose raw_data holds a surname and an index only
SparseRawData ==
    PyDict(<< <<SURNAME_KEY, PyStr(<<"i", "v", "a", "n">>)>>,
              <<"citi", PyFloat(<<1200001, 2>>)>> >>)
SparseEntry ==
    create_history_entry(ReportOf(CalcLocals(StoreForm)), SparseRawData, Clock(0), Clock(0))

JournalEntries == {EntryOf(StoreForm, 0), EntryOf(PatientForm, 0), SparseEntry}
JournalHistories == UNION {[1..n -> JournalEntries] : n \in 0..MaxHistory}
\* a form whose CT field holds a text that is_ct_valid rejects
BadCtForm == [StoreForm EXCEPT !.ct_percent = <<"+">>]
JournalForms == {StoreForm, PatientForm, BadCtForm}

InitJournal ==
    /\ call = NoCall
    /\ form \in JournalForms
    /\ ui = on_input_changed(form, ConstructedUi)
    /\ full_report = NoReport
    /\ \E history \in JournalHistories : file = JsonFile(DumpList(history))
    /\ dlg = ClosedDialog
    /\ now = 0
    /\ last = Idle
    /\ writers = NoWriters

NextJournal ==
    \/ ClickJournal
    \/ SelectRow
    \/ ClearSelection
    \/ ClickExport
    \/ ClickOpen
    \/ CloseJournal

SpecJournal == InitJournal /\ [][NextJournal]_vars

(***************************************************************************)
(* SpecWriters: two running copies of the application calculate over the   *)
(* same history file.  The try block of on_calculate is three calls:       *)
(* create_history_entry and load_history, then append, then save_history;  *)
(* another copy may read or write the file between the reading and the     *)
(* writing.                                                                *)
(***************************************************************************)
\* the form each copy calculates
WriterForm(w) == IF w = 1 THEN StoreForm ELSE PatientForm

\* history_entry = create_history_entry(...); current_history = load_history()
WriterLoad(w) ==
    /\ writers[w].pc = "idle"
    /\ StoredCount < MaxHistory
    /\ load_history(file).exc = "none"
    /\ writers' = [writers EXCEPT ![w] = [pc |-> "loaded",
                                          current_history |-> load_history(file).result,
                                          history_entry |-> EntryOf(WriterForm(w), now)]]
    /\ last' = Outcome("load_history", "none", load_history(file).logged, <<>>)
    /\ UNCHANGED <<call, form, ui, full_report, file, dlg, now>>

\* the list a copy hands to save_history, merged with what the file holds by then
AppendedListMerged(current_history, history_entry, fl) ==
    Append(load_history(fl).result, history_entry)

\* current_history.append(history_entry): the list a copy hands to save_history
AppendedList(current_history, history_entry, fl) == Append(current_history, history_entry)

\* the copy w has written, or failed to write
WriterSaved(w, saved) ==
    /\ file' = saved.file
    /\ last' = Outcome("on_calculate", IF saved.exc = "none" THEN "none" ELSE "TypeError",
                       saved.logged, <<>>)
    /\ writers' = [writers EXCEPT ![w] = IdleWriter]

\* save_history(current_history)
WriterSave(w) ==
    /\ writers[w].pc = "loaded"
    /\ \E outcome \in SaveOutcomes :
          WriterSaved(w, save_history(AppendedList(writers[w].current_history,
                                                   writers[w].history_entry, file),
                                      file, outcome))
    /\ UNCHANGED <<call, form, ui, full_report, dlg, now>>

InitWriters ==
    /\ call = NoCall
    /\ form = StoreForm
    /\ ui = on_input_changed(StoreForm, ConstructedUi)
    /\ full_report = NoReport
    /\ file \in StartFiles
    /\ dlg = ClosedDialog
    /\ now = 0
    /\ last = Idle
    /\ writers = NoWriters

NextWriters ==
    \/ \E w \in Writers : WriterLoad(w)
    \/ \E w \in Writers : WriterSave(w)
    \/ Tick

SpecWriters == InitWriters /\ [][NextWriters]_vars

(***************************************************************************)
(* SpecForm: the form from its construction, with one calculation stored   *)
(***************************************************************************)
MaxFormHistory == 1

FormTexts ==
    [d_dimer |-> {<<>>, <<"5", "0", "0", "0">>},
     interleukins |-> {<<>>, <<"1", "0", "0">>, <<"1", "2", "0">>},
     lymphocytes |-> {<<>>, <<"1">>, <<"0">>, <<"+">>},
     ct_percent |-> {<<>>, <<"7", "0">>, <<"7", "1">>, <<"+">>, <<"1", "0", "1">>,
                     <<"7", ",", "5">>}]

InitForm0 ==
    /\ call = NoCall
    /\ form = InitForm
    /\ ui = on_input_changed(InitForm, ConstructedUi)
    /\ full_report = NoReport
    /\ file \in StartFiles
    /\ dlg = ClosedDialog
    /\ now = 0
    /\ last = Idle
    /\ writers = NoWriters

NextForm ==
    \/ EditText(FormTexts)
    \/ ClickCalculate(MaxFormHistory)
    \/ ClickReset
    \/ ClickCopy

SpecForm == InitForm0 /\ [][NextForm]_vars

(***************************************************************************)
(* SpecCalc: the functions of core/calculator.py and build_full_report     *)
(* applied to arguments drawn from the sets below                          *)
(***************************************************************************)
DDimerArgs == {<<1, 2>>, <<1000, 1>>, <<5000, 1>>}
InterleukinArgs == {<<1, 10>>, <<100, 1>>, <<120, 1>>}
LymphocyteArgs == {<<-1, 1>>, <<-1, 2>>, <<0, 1>>, <<1, 10>>, <<1, 2>>, <<1, 1>>, <<3, 1>>}
CitiArgs ==
    {<<0, 1>>, <<9999999, 100>>, <<100000, 1>>, <<10000001, 100>>, <<300000, 1>>,
     <<49999999, 100>>, <<500000, 1>>, <<50000001, 100>>, <<600000, 1>>}
CtArgs == {<<0, 1>>, <<139, 2>>, <<70, 1>>, <<141, 2>>, <<71, 1>>, <<100, 1>>}
\* CT texts as on_calculate formats them, and texts it never produces
CtStrArgs == {UNKNOWN_STATUS, <<"7", "0", " ", "%">>, <<"7", "1", " ", "%">>, <<"8", "0", ".", "5", " ", "%">>, <<"+", " ", "%">>, <<"1", "0", "0", " ", "%">>}
NameArgs == {<<>>, <<"i", "v", "a", "n">>, <<"a", "N", "N", "a">>}
PatronymicArgs == {<<>>, <<"o", "v", "n", "a">>}
CopyCtArgs == {<<70, 1>>, <<71, 1>>}

InitCalc ==
    /\ call = NoCall
    /\ form = InitForm
    /\ ui = on_input_changed(InitForm, ConstructedUi)
    /\ full_report = NoReport
    /\ file = AbsentFile
    /\ dlg = ClosedDialog
    /\ now = 0
    /\ last = Idle
    /\ writers = NoWriters

CallCalculateCiti ==
    /\ \E d \in DDimerArgs : \E i \in InterleukinArgs : \E l \in LymphocyteArgs :
          call' = [fn |-> "calculate_citi", args |-> <<d, i, l>>,
                   ret |-> calculate_citi(d, i, l)]
    /\ UNCHANGED <<writers, form, ui, full_report, file, dlg, now, last>>

CallInterpretCiti ==
    /\ \E citi \in CitiArgs :
          call' = [fn |-> "interpret_citi", args |-> <<citi>>, ret |-> interpret_citi(citi)]
    /\ UNCHANGED <<writers, form, ui, full_report, file, dlg, now, last>>

CallGetInterpretationText ==
    /\ \E citi \in CitiArgs : \E ct \in CtArgs :
          call' = [fn |-> "get_interpretation_text", args |-> <<citi, ct>>,
                   ret |-> get_interpretation_text(citi, ct)]
    /\ UNCHANGED <<writers, form, ui, full_report, file, dlg, now, last>>

\* a form of a woman with all names, both dates and a CT value the form rejects
FullForm ==
    [PatientForm EXCEPT !.name = <<"a", "N", "N", "a">>, !.patronymic = <<"o", "v", "n", "a">>,
                        !.gender = "female", !.ct_percent = <<"1", "0", "1">>]
ResetForms == {StoreForm, PatientForm, FullForm}

\* reset_form runs on the window as on_calculate left it
ResetCalled(before) ==
    call' = [fn |-> "reset_form", args |-> <<before.form, before.ui>>,
             ret |-> reset_form(before.form, before.ui)]

\* the window as on_calculate leaves it when the entry was stored: the checks, the
\* result shown, full_report assigned, the three buttons enabled. The file is not
\* followed here, reset_form does not read it.
WindowCalculated(f, u) ==
    IF ~AllFilled(f)
    THEN AppState(f, u, NoReport, AbsentFile, Idle)
    ELSE IF ~is_ct_valid(f.ct_percent)
    THEN AppState(f, show_error(u, ERROR_MESSAGE_CT), NoReport, AbsentFile, Idle)
    ELSE Stored(f, ShowResult(u, CalcLocals(f)), NoReport, AbsentFile,
                load_history(AbsentFile),
                [file |-> AbsentFile, logged |-> <<>>, exc |-> "none"])

\* the reset button after a calculation, or after a calculation and one more that
\* the CT value stopped with show_error
CallResetForm ==
    /\ \E f \in ResetForms :
          ResetCalled(WindowCalculated(f, WindowCalculated([f EXCEPT !.ct_percent = <<>>],
                                                          on_input_changed(f, ConstructedUi)).ui))
    /\ UNCHANGED <<writers, form, ui, full_report, file, dlg, now, last>>

\* what each copy answers for an index: its band, and the text of the risk label
\* where the copy has one
CopiesOf(citi_core, citi_calculator, citi_main, ct) ==
    [core |-> <<citi_core, interpret_citi(citi_core), get_interpretation_text(citi_core, ct)>>,
     calculator |-> <<citi_calculator, calculator_interpret_citi(citi_calculator)>>,
     main |-> <<citi_main, main_interpret_citi(citi_main), main_risk_text(citi_main, ct)>>]

\* the three copies of the calculator asked with the same values
CallCalculatorCopies ==
    /\ \E d \in DDimerArgs : \E i \in InterleukinArgs : \E l \in LymphocyteArgs :
       \E ct \in CopyCtArgs :
          call' = [fn |-> "copies", args |-> <<d, i, l, ct>>,
                   ret |-> CopiesOf(calculate_citi(d, i, l),
                                    calculator_calculate_citi(d, i, l),
                                    main_calculate_citi(d, i, l), ct)]
    /\ UNCHANGED <<writers, form, ui, full_report, file, dlg, now, last>>

CallBuildFullReport ==
    /\ \E surname \in NameArgs : \E name \in NameArgs :
       \E patronymic \in PatronymicArgs : \E ct_str \in CtStrArgs :
       \E citi \in {<<500000, 1>>, <<50000001, 100>>, <<600000, 1>>} :
          call' = [fn |-> "build_full_report",
                   args |-> <<surname, name, patronymic, ct_str, citi>>,
                   ret |-> build_full_report(surname, name, patronymic, UNKNOWN_STATUS,
                                             UNKNOWN_STATUS, UNKNOWN_STATUS,
                                             UNKNOWN_STATUS, <<5000, 1>>, <<100, 1>>,
                                             <<1, 1>>, ct_str, citi,
                                             interpret_citi(citi)[1])]
    /\ UNCHANGED <<writers, form, ui, full_report, file, dlg, now, last>>

\* dates for calculate_age; QDate(2023, 2, 30) is not a date of the calendar
BirthArgs == {QDate(1990, 6, 15), QDate(2000, 2, 29), QDate(2023, 2, 30)}
StudyArgs ==
    {QDate(2024, 6, 14), QDate(2024, 6, 15), QDate(2024, 5, 20), QDate(2024, 7, 1),
     QDate(1990, 6, 14), QDate(1985, 1, 1), QDate(2024, 2, 29), QDate(2023, 2, 30)}

CallCalculateAge ==
    /\ \E birth \in BirthArgs : \E study \in StudyArgs :
          call' = [fn |-> "calculate_age", args |-> <<birth, study>>,
                   ret |-> calculate_age(birth, study)]
    /\ UNCHANGED <<writers, form, ui, full_report, file, dlg, now, last>>

\* the age that on_input_changed shows and the age string that on_calculate hands
\* to the report, for the dates and the two "unknown" boxes of the form
ShownAge(f) == <<on_input_changed(f, ConstructedUi).age_display, CalcLocals(f).age_str>>

CallShowAge ==
    /\ \E birth \in BirthArgs : \E study \in StudyArgs :
       \E dob_unknown \in BOOLEAN : \E study_date_unknown \in BOOLEAN :
          call' = [fn |-> "age",
                   args |-> <<birth, study, dob_unknown, study_date_unknown>>,
                   ret |-> ShownAge([StoreForm EXCEPT
                                        !.dob = birth, !.study_date = study,
                                        !.dob_unknown = dob_unknown,
                                        !.study_date_unknown = study_date_unknown])]
    /\ UNCHANGED <<writers, form, ui, full_report, file, dlg, now, last>>

NextCalc ==
    \/ CallResetForm
    \/ CallCalculatorCopies
    \/ CallCalculateAge
    \/ CallShowAge
    \/ CallCalculateCiti
    \/ CallInterpretCiti
    \/ CallGetInterpretationText
    \/ CallBuildFullReport

SpecCalc == InitCalc /\ [][NextCalc]_vars

(***************************************************************************)
(* Properties                                                              *)
(***************************************************************************)
Positive(x) == RGt(x, RInt(0))

\* C1: for d_dimer, interleukins and lymphocytes all above zero, calculate_citi
\* returns d_dimer * interleukins / lymphocytes: the result times the lymphocytes
\* is the product of the other two, and nothing is added to the denominator.
C1_ExactQuotient ==
    (/\ call.fn = "calculate_citi"
     /\ Positive(call.args[1]) /\ Positive(call.args[2]) /\ Positive(call.args[3]))
        => /\ call.ret /= DivError
           /\ RMul(call.ret, call.args[3]) = RMul(call.args[1], call.args[2])

C1_Witness ==
    /\ call.fn = "calculate_citi"
    /\ call.args = << <<5000, 1>>, <<100, 1>>, <<1, 2>> >>
    /\ call.ret = <<1000000, 1>>

\* C2: for lymphocytes at or below zero calculate_citi divides by 0.1, so the result
\* is the one for lymphocytes = 0.1, that is d_dimer * interleukins / 0.1; and no
\* argument makes the division fail.
C2_TenthSubstituted ==
    call.fn = "calculate_citi"
        => /\ call.ret /= DivError
           /\ ~Positive(call.args[3])
                 => /\ RMul(call.ret, TenthLiteral) = RMul(call.args[1], call.args[2])
                    /\ call.ret = calculate_citi(call.args[1], call.args[2], TenthLiteral)

C2_Witness ==
    /\ call.fn = "calculate_citi"
    /\ call.args = << <<1000, 1>>, <<100, 1>>, <<-1, 2>> >>
    /\ call.ret = <<1000000, 1>>

\* C3: interpret_citi puts every index into exactly one band: below 100000 Low and
\* green, from 100000 to 500000 (both included) Moderate and yellow, above 500000
\* High and red.
C3_Bands ==
    call.fn = "interpret_citi"
        => LET citi == call.args[1]
           IN  /\ call.ret \in {<<RISK_LOW, COLOR_LOW>>, <<RISK_MODERATE, COLOR_MODERATE>>,
                                <<RISK_HIGH, COLOR_HIGH>>}
               /\ call.ret = <<RISK_LOW, COLOR_LOW>> <=> RLt(citi, RInt(100000))
               /\ call.ret = <<RISK_HIGH, COLOR_HIGH>> <=> RGt(citi, RInt(500000))
               /\ citi \in {RInt(100000), RInt(500000)}
                     => call.ret = <<RISK_MODERATE, COLOR_MODERATE>>

C3_Witness ==
    /\ call.fn = "interpret_citi"
    /\ call.args = << <<500000, 1>> >>
    /\ call.ret = <<RISK_MODERATE, COLOR_MODERATE>>

\* text ends with the extra warning
HasWarning(text) ==
    /\ Len(text) >= Len(EXTRA_WARNING_CT_CITI)
    /\ SubSeq(text, Len(text) - Len(EXTRA_WARNING_CT_CITI) + 1, Len(text))
          = EXTRA_WARNING_CT_CITI

\* on_calculate has just shown a result for the form as it stands
ResultShown ==
    /\ last.op = "on_calculate"
    /\ AllFilled(form)
    /\ is_ct_valid(form.ct_percent)

\* the index of the form, and the CT percentage typed into it (0 when there is none)
FormIndex ==
    FloatDiv(RMul(get_float(form.d_dimer), get_float(form.interleukins)),
             get_float(form.lymphocytes))
FormCt == IF Strip(form.ct_percent) = <<>> THEN RInt(0) ELSE get_float(form.ct_percent)

\* C4: after a calculation the risk label on screen and the interpretation of the
\* report both end with the extra warning exactly when the index is above 500000
\* and the CT percentage is above 70; an index of 500000, a CT of 70 and an empty
\* CT field give no warning.
C4_WarningIff ==
    ResultShown
        => LET due == RGt(FormIndex, RInt(500000)) /\ RGt(FormCt, RInt(70))
           IN  /\ ui.risk_visible
               /\ HasWarning(ui.risk_label) <=> due
               /\ full_report.set
               /\ HasWarning(full_report.text.interpretation) <=> due
               /\ (FormIndex = RInt(500000) \/ FormCt = RInt(70)
                      \/ Strip(form.ct_percent) = <<>>)
                     => /\ ui.risk_label \in {RISK_LOW, RISK_MODERATE, RISK_HIGH}
                        /\ full_report.text.interpretation = ui.risk_label

C4_Witness ==
    /\ ResultShown
    /\ FormIndex = RInt(600000)
    /\ FormCt = RInt(71)
    /\ ui.risk_label = RISK_HIGH \o EXTRA_WARNING_CT_CITI
    /\ full_report.text.interpretation = RISK_HIGH \o EXTRA_WARNING_CT_CITI

\* C5: load_history on a history file that does not exist returns the empty list,
\* raises nothing and leaves the file absent: the journal opened over a missing
\* file shows no entry, no exception escapes, and the file is as it was.
C5_MissingFileLoadsEmpty ==
    [][(ClickJournal /\ file.kind = "absent")
          => /\ file' = file
             /\ last'.exc = "none"
             /\ dlg'.open
             /\ dlg'.history = <<>>
             /\ dlg'.table = <<>>]_vars

C5_Witness ==
    /\ last.op = "open_history_journal"
    /\ last.exc = "none"
    /\ file = AbsentFile
    /\ dlg.open
    /\ dlg.history = <<>>

\* the history file is there and is not a JSON list
Malformed(f) == f.kind \in {"bad_utf8", "bad_json"} \/ (f.kind = "json" /\ f.doc.t /= "array")

\* C6: load_history on a file that is present but malformed (not JSON, not UTF-8,
\* or JSON that is not a list) returns the empty list, raises nothing and logs the
\* failure: the journal opens empty, no exception escapes, a record is logged.
C6_MalformedLoadsEmptyLogged ==
    (last.op = "open_history_journal" /\ Malformed(file))
        => /\ last.exc = "none"
           /\ dlg.open
           /\ dlg.history = <<>>
           /\ last.logged /= <<>>

\* a step of on_calculate that got through save_history
SuccessfulAppend ==
    /\ last'.op \in {"on_calculate", "load_entry_to_form"}
    /\ last'.exc = "none"
    /\ AllFilled(form')
    /\ is_ct_valid(form'.ct_percent)
    /\ ClickCalculate(MaxHistory) \/ ClickOpen

\* the entry on_calculate hands to save_history
AppendedEntry ==
    create_history_entry(ReportOf(CalcLocals(form')), RawDataOf(CalcLocals(form')),
                         Clock(now), Clock(now))

\* C7: each successful append (load_history, append, save_history) makes the next
\* load_history return the list loaded before followed by the appended entry, with
\* id, timestamp, full_report and raw_data as they were appended; so N appends to
\* an empty store load as those N entries in the order of appending.
C7_AppendRoundTrip ==
    [][SuccessfulAppend
          => /\ load_history(file').exc = "none"
             /\ load_history(file').result = Append(load_history(file).result, AppendedEntry)
             /\ (file.kind = "absent" \/ file = JsonFile(DumpList(<<>>)))
                   => load_history(file').result = <<AppendedEntry>>]_vars

C7_Witness ==
    /\ last.op = "on_calculate"
    /\ last.exc = "none"
    /\ LET stored == load_history(file).result
       IN  /\ Len(stored) = 2
           /\ Item(Item(stored[1], "raw_data"), INTERLEUKINS_KEY) = PyFloat(RInt(100))
           /\ Item(Item(stored[2], "raw_data"), INTERLEUKINS_KEY) = PyFloat(RInt(120))
           /\ Item(stored[1], "id") /= Item(stored[2], "id")

\* the user answered Yes and save_history wrote the file
ConfirmedDelete ==
    /\ ClickDelete
    /\ last'.boxes = << <<"question", "Yes">> >>
    /\ last'.exc = "none"

\* C8: a confirmed deletion of the selected row i removes the entry at position i
\* from the persisted history and nothing else: the file then holds the list it
\* held before without its entry i, the others in their order.
C8_DeletesSelectedEntry ==
    [][ConfirmedDelete
          => load_history(file').result = DeleteAt(load_history(file).result, dlg.sel)]_vars

\* C9: with an empty history or no row selected delete_selected does nothing, and
\* so does a declined confirmation: no exception, no entry removed, save_history not
\* called, the file unchanged.
C9_DeleteIsNoOp ==
    [][(/\ ClickDelete
        /\ \/ dlg.history = <<>>
           \/ dlg.sel = -1
           \/ last'.boxes = << <<"question", "No">> >>)
          => /\ last'.exc = "none"
             /\ last'.logged = <<>>
             /\ file' = file
             /\ dlg'.history = dlg.history]_vars

\* C10: no two entries of the persisted history have the same id.
C10_UniqueIds ==
    LET stored == load_history(file).result
    IN  \A i, j \in 1..Len(stored) :
            i /= j => Item(stored[i], "id") /= Item(stored[j], "id")

\* the entries of a list
Entries(history) == {history[i] : i \in 1..Len(history)}

\* C11: no entry is changed after its creation: whatever step rewrites the file,
\* every entry the file then holds is an entry that existed before the step, in the
\* file or in the list of the open journal, with the same id, timestamp, full_report
\* and raw_data, or the entry that this step appended; and the list of the open
\* journal only ever holds entries read from the file.
C11_EntriesNeverChange ==
    [][/\ file' /= file
          => Entries(load_history(file').result)
                \subseteq (Entries(load_history(file).result)
                              \cup Entries(dlg.history)
                              \cup (IF SuccessfulAppend THEN {AppendedEntry} ELSE {}))
       /\ dlg' /= dlg
          => Entries(dlg'.history)
                \subseteq (Entries(dlg.history) \cup Entries(load_history(file).result))]_vars

\* an entry has outlived the deletion of the entry stored before it
C11_Witness ==
    /\ last.op = "delete_selected"
    /\ last.exc = "none"
    /\ last.boxes = << <<"question", "Yes">> >>
    /\ dlg.history = load_history(file).result
    /\ Len(dlg.history) = 1
    /\ Item(Item(dlg.history[1], "raw_data"), INTERLEUKINS_KEY) = PyFloat(RInt(120))
    /\ Item(dlg.history[1], "timestamp") = PyStr(Clock(1))

\* the three laboratory values of the form are above zero and its CT field is
\* empty or holds a whole number from 0 to 100
CtAcceptable(t, parsed) ==
    t = <<>> \/ (parsed.ok /\ parsed.val[2] = 1 /\ parsed.val[1] \in 0..100)
ValidInputs(f) ==
    /\ Positive(get_float(f.d_dimer))
    /\ Positive(get_float(f.interleukins))
    /\ Positive(get_float(f.lymphocytes))
    /\ CtAcceptable(Strip(f.ct_percent), ParseFloat(ReplaceComma(Strip(f.ct_percent))))

\* the step left the file with the list it held before and one more entry
AppendedOne ==
    /\ load_history(file').exc = "none"
    /\ Len(load_history(file').result) = Len(load_history(file).result) + 1
    /\ SubSeq(load_history(file').result, 1, Len(load_history(file).result))
          = load_history(file).result

C13_IndexOnlyFromPositive ==
    [][ClickCalculate(MaxFormHistory)
          => /\ Positive(get_float(form.d_dimer))
             /\ Positive(get_float(form.interleukins))
             /\ Positive(get_float(form.lymphocytes))
             /\ ValidInputs(form)
                   => /\ ui'.result_visible
                      /\ ui'.result_value
                            = FormatCiti(RDiv(RMul(get_float(form.d_dimer),
                                                   get_float(form.interleukins)),
                                              get_float(form.lymphocytes)))]_vars

\* 5000 * 120 / 1 is shown
C13_Witness ==
    /\ last.op = "on_calculate"
    /\ form.d_dimer = <<"5", "0", "0", "0">>
    /\ form.interleukins = <<"1", "2", "0">>
    /\ form.lymphocytes = <<"1">>
    /\ ui.result_visible
    /\ ui.result_value = <<"6", "0", "0", ",", "0", "0", "0">>

\* (month, day) of a precedes (month, day) of b
MonthDayBefore(a, b) == a.m < b.m \/ (a.m = b.m /\ a.d < b.d)

\* the difference of the years, less one when the birthday of the year is still ahead
WholeYears(birth, study) ==
    (study.y - birth.y) - (IF MonthDayBefore(study, birth) THEN 1 ELSE 0)

\* C14 (as amended): for two valid dates calculate_age returns the difference of the
\* years, less one exactly when (month, day) of the study date precedes that of the
\* birth date, and 0 when this number is negative; birth 1990-06-15 gives 33 for a
\* study on 2024-06-14 and 34 for 2024-06-15.
C14_AgeInWholeYears ==
    (call.fn = "calculate_age" /\ IsValid(call.args[1]) /\ IsValid(call.args[2]))
        => /\ WholeYears(call.args[1], call.args[2]) >= 0
                 => call.ret = WholeYears(call.args[1], call.args[2])
           /\ WholeYears(call.args[1], call.args[2]) < 0 => call.ret = 0
           /\ call.args = <<QDate(1990, 6, 15), QDate(2024, 6, 14)>> => call.ret = 33
           /\ call.args = <<QDate(1990, 6, 15), QDate(2024, 6, 15)>> => call.ret = 34

C14_Witness ==
    /\ call.fn = "calculate_age"
    /\ call.args = <<QDate(1990, 6, 15), QDate(2024, 6, 14)>>
    /\ call.ret = 33

\* C14 as stated: for two valid dates calculate_age returns the difference of the
\* years, less one exactly when (month, day) of the study date precedes that of the
\* birth date.
C14_AgeIsYearDifference ==
    (call.fn = "calculate_age" /\ IsValid(call.args[1]) /\ IsValid(call.args[2]))
        => call.ret = WholeYears(call.args[1], call.args[2])

NonEmptyParts(parts) == SelectSeq(parts, LAMBDA p : p /= <<>>)

\* words with a raised first letter and lowered other letters, one space between
RECURSIVE SpacedWords(_)
SpacedWords(words) ==
    IF Len(words) = 1 THEN Capitalize(words[1])
    ELSE Capitalize(words[1]) \o <<" ">> \o SpacedWords(Tail(words))

\* C16: the full name of the report is the unknown placeholder exactly when
\* surname, name and patronymic are all empty; otherwise it is the non-empty
\* parts in the order surname, name, patronymic, one space between, title-cased.
C16_FullNameOfReport ==
    call.fn = "build_full_report"
        => LET parts == NonEmptyParts(<<call.args[1], call.args[2], call.args[3]>>)
           IN  /\ call.ret.full_name = UNKNOWN_STATUS <=> parts = <<>>
               /\ parts /= <<>> => call.ret.full_name = SpacedWords(parts)

C16_Witness ==
    /\ call.fn = "build_full_report"
    /\ call.args[1] = <<"i", "v", "a", "n">>
    /\ call.args[2] = <<>>
    /\ call.args[3] = <<"o", "v", "n", "a">>
    /\ call.ret.full_name = <<"I", "v", "a", "n", " ", "O", "v", "n", "a">>


\* save_history logged a failed write during the last handler
SaveFailed == \E i \in 1..Len(last.logged) : last.logged[i] = ERROR_SAVE_HISTORY

\* C17: when writing the history file fails during a calculation or a deletion,
\* the user is shown a message and no exception leaves the handler.
C17_SaveFailureReported ==
    (last.op \in {"on_calculate", "delete_selected"} /\ SaveFailed)
        => /\ last.exc = "none"
           /\ \E i \in 1..Len(last.boxes) : last.boxes[i][1] = "critical"


\* export_history ran to its end: the user chose a file and every write succeeded
ExportCompleted ==
    /\ call.fn = "export_history"
    /\ call.args[2] /= <<>>
    /\ call.args[3] = "ok"

\* the file holds the header and one row for each entry, in the order of the history
HeaderAndRows(csv, history) ==
    /\ csv.written
    /\ Len(csv.rows) = Len(history) + 1
    /\ csv.rows[1] = EXPORT_HEADER
    /\ \A i \in 1..Len(history) : csv.rows[i + 1] = ExportRow(history[i])

\* C18 as amended: an export of a history with N >= 1 entries that runs to its end
\* writes the header and one row for each entry, in history order (N + 1 rows); for
\* an empty history export_history shows a message and writes no file.
C18_ExportRowsOfNonEmptyHistory ==
    call.fn = "export_history"
        => /\ (ExportCompleted /\ call.args[1] /= <<>>) => HeaderAndRows(call.ret, call.args[1])
           /\ call.args[1] = <<>>
                 => /\ ~call.ret.written
                    /\ last.op = "export_history"
                          => last.boxes = << <<"information", NO_HISTORY_MESSAGE>> >>

C18_Witness ==
    /\ ExportCompleted
    /\ call.args[1] = <<EntryOf(PatientForm, 0), SparseEntry>>
    /\ Len(call.ret.rows) = 3
    /\ call.ret.rows[2][2] = <<"I", "v", "a", "n">>
    /\ call.ret.rows[3][10] = <<"6", "0", "0", "0", "0", "0">>

\* C18: an export that runs to its end writes the header and one row for each
\* entry, N + 1 rows for every history, the empty one included.
C18_ExportRowsOfEveryHistory ==
    ExportCompleted => HeaderAndRows(call.ret, call.args[1])


\* the text of the field key of raw_data d: its stored value, or the unknown literal
\* when d has no such field
StoredOrUnknown(d, key) == IF HasKey(d, key) THEN PyToStr(Item(d, key)) ELSE UNKNOWN_STATUS

\* the columns of the export and the fields of raw_data they render
ExportColumns ==
    << <<3, "dob">>, <<4, "study_date">>, <<5, GENDER>>, <<6, D_DIMER_KEY>>,
       <<7, INTERLEUKINS_KEY>>, <<8, LYMPHOCYTES_KEY>>, <<9, CT_PERCENT_KEY>>,
       <<11, "risk">> >>

\* C19: in the CSV export a field missing from raw_data is rendered as the unknown
\* literal and a field present in raw_data, the gender recorded by the calculation
\* included, is rendered with its stored value.
C19_ExportRendersRawData ==
    (ExportCompleted /\ call.ret.written)
        => \A i \in 1..Len(call.args[1]) : \A c \in 1..Len(ExportColumns) :
              call.ret.rows[i + 1][ExportColumns[c][1]]
                  = StoredOrUnknown(Item(call.args[1][i], "raw_data"), ExportColumns[c][2])


\* the entry that the open button of the journal loads into the form
OpenedEntry == dlg.history[dlg.sel + 1]

\* an entry of the journal is loaded into the form in this step
EntryReopened ==
    /\ dlg.open
    /\ dlg.sel \in 0..(Len(dlg.history) - 1)
    /\ last'.op = "load_entry_to_form"

\* C20: reopening an entry of the journal sets every input of the form to the value
\* recorded in the entry's raw_data, whatever the form held before, so that the
\* data and the report computed from the form are those of the entry.
C20_ReopenRestoresInputs ==
    [][(EntryReopened /\ HasKey(Item(OpenedEntry, "raw_data"), D_DIMER_KEY))
          => /\ RawDataOf(CalcLocals(form')) = Item(OpenedEntry, "raw_data")
             /\ ReportOf(CalcLocals(form')) = Item(OpenedEntry, "full_report").v]_vars


\* C21: the three copies of the calculator answer alike: the same index, the same
\* risk label and colour, and main.py's inline warning rule gives the text of
\* get_interpretation_text.
C21_CopiesAgree ==
    call.fn = "copies"
        => /\ call.ret.calculator[1] = call.ret.core[1]
           /\ call.ret.main[1] = call.ret.core[1]
           /\ call.ret.calculator[2] = call.ret.core[2]
           /\ call.ret.main[2] = call.ret.core[2]
           /\ call.ret.main[3] = call.ret.core[3]

C21_Witness ==
    /\ call.fn = "copies"
    /\ call.args = << <<5000, 1>>, <<100, 1>>, <<1, 1>>, <<71, 1>> >>
    /\ call.ret.main = << <<500000, 1>>, <<RISK_MODERATE, COLOR_MODERATE>>, RISK_MODERATE >>
    /\ call.ret.calculator = << <<500000, 1>>, <<RISK_MODERATE, COLOR_MODERATE>> >>


\* C22: calculate_citi of calculator.py returns what the formula of its docstring
\* gives, (d_dimer * interleukins) / (lymphocytes + 0.1).
C22_DocstringFormula ==
    call.fn = "copies"
        => call.ret.calculator[1]
              = FloatDiv(RMul(call.args[1], call.args[2]), RAdd(call.args[3], TenthLiteral))


\* the copy w writes the history file in this step and the write succeeds
WriterStores(w) ==
    /\ writers[w].pc = "loaded"
    /\ writers'[w].pc = "idle"
    /\ last'.exc = "none"

\* C23: a copy that writes leaves its own list in the file, the list it read plus
\* its entry: an entry that another copy stored after this copy had read the file
\* (an entry that is not in this list) is lost, and when nothing was written in between (as within one process) every
\* entry of the file is kept.
C23_LastWriterWins ==
    [][\A w \in Writers :
          WriterStores(w)
             => /\ load_history(file').result
                      = Append(writers[w].current_history, writers[w].history_entry)
                /\ \A e \in Entries(load_history(file).result) :
                      e \notin Entries(Append(writers[w].current_history,
                                               writers[w].history_entry))
                         => e \notin Entries(load_history(file').result)
                /\ load_history(file).result = writers[w].current_history
                      => /\ Entries(load_history(file).result)
                               \subseteq Entries(load_history(file').result)
                         /\ Len(load_history(file').result)
                               = Len(load_history(file).result) + 1]_vars

\* both copies read the empty history, the first has stored its entry, and the
\* second is about to write the list it read
C23_Witness ==
    /\ writers[1].pc = "idle"
    /\ writers[2].pc = "loaded"
    /\ writers[2].current_history = <<>>
    /\ last.op = "on_calculate"
    /\ last.exc = "none"
    /\ load_history(file).result = <<EntryOf(StoreForm, 0)>>


\* the three laboratory values of the form f, read by get_float, are above zero
LabValuesPositive(f) ==
    /\ Positive(get_float(f.d_dimer))
    /\ Positive(get_float(f.interleukins))
    /\ Positive(get_float(f.lymphocytes))

\* C24: after every change of an input the calculate button is enabled exactly when
\* the three laboratory values read from the form are above zero, an empty or
\* unreadable text counting as 0, and the instruction label is visible exactly when
\* the button is disabled.
C24_ButtonFollowsInputs ==
    [][last'.op = "on_input_changed"
          => /\ ui'.calculate_enabled <=> LabValuesPositive(form')
             /\ ui'.instruction_visible <=> ~ui'.calculate_enabled
             /\ (\E key \in {"d_dimer", "interleukins", "lymphocytes"} :
                    form'[key] \in {<<>>, <<"0">>, <<"+">>})
                   => ~ui'.calculate_enabled]_vars

C24_Witness ==
    /\ last.op = "on_input_changed"
    /\ form.d_dimer = <<"5", "0", "0", "0">>
    /\ form.interleukins = <<"1", "0", "0">>
    /\ form.lymphocytes = <<"+">>
    /\ ~ui.calculate_enabled
    /\ ui.instruction_visible
    /\ ui.result_visible


\* C25: reset_form leaves every text field empty, the gender unspecified, both dates
\* marked unknown, the age shown as the dash, the results hidden, the default
\* instruction shown, and the calculate, reset, copy and PDF buttons disabled.
C25_ResetFormClears ==
    call.fn = "reset_form"
        => /\ \A key \in {"surname", "name", "patronymic", "d_dimer", "interleukins",
                          "lymphocytes", "ct_percent"} : call.ret.form[key] = <<>>
           /\ call.ret.form.gender = "not_specified"
           /\ call.ret.form.dob_unknown /\ call.ret.form.study_date_unknown
           /\ call.ret.ui.age_display = AGE_DASH
           /\ ~call.ret.ui.result_visible /\ ~call.ret.ui.risk_visible
           /\ call.ret.ui.instruction_visible
           /\ call.ret.ui.instruction_text = INSTRUCTION_DEFAULT
           /\ ~call.ret.ui.calculate_enabled /\ ~call.ret.ui.reset_enabled
           /\ ~call.ret.ui.copy_enabled /\ ~call.ret.ui.pdf_enabled

C25_Witness ==
    /\ call.fn = "reset_form"
    /\ call.args[1] = FullForm
    /\ call.args[2].instruction_text = ERROR_MESSAGE_CT
    /\ call.args[2].reset_enabled
    /\ call.args[2].age_display = <<"3", "4">>
    /\ call.ret.form = [InitForm EXCEPT !.dob = QDate(1990, 6, 15)]


\* the raw_data d holds three laboratory values above zero and a CT value that is
\* absent, unknown or a whole number of percent from 0 to 100
RecordedInputsValid(d) ==
    /\ \A key \in {D_DIMER_KEY, INTERLEUKINS_KEY, LYMPHOCYTES_KEY} :
          HasKey(d, key) /\ Positive(NumVal(Item(d, key)))
    /\ \/ ~HasKey(d, CT_PERCENT_KEY)
       \/ Item(d, CT_PERCENT_KEY).v = UNKNOWN_STATUS
       \/ CtAcceptable(RemovePercent(Item(d, CT_PERCENT_KEY).v),
                       ParseFloat(RemovePercent(Item(d, CT_PERCENT_KEY).v)))

\* C26: reopening an entry of the journal that holds positive laboratory values and
\* a valid CT value, with no error leaving the handler, appends one entry: the store
\* grows by exactly one and the opened entry stays in its place unchanged.
C26_ReopenAppendsOne ==
    [][(/\ EntryReopened
        /\ last'.exc = "none"
        /\ RecordedInputsValid(Item(OpenedEntry, "raw_data")))
          => /\ AppendedOne
             /\ load_history(file').result[dlg.sel + 1] = OpenedEntry]_vars


\* C27: while the journal is open, row i of the table shows history[i] and the list
\* of the journal is the list the file holds, whatever selections, deletions and
\* exports have run, a deletion whose save_history fails included.
C27_JournalShowsStoredList ==
    dlg.open => /\ dlg.table = populate_table(dlg.history)
                /\ load_history(file).exc = "none"
                /\ dlg.history = load_history(file).result


\* the copy and the PDF button are both disabled
ReportButtonsOff(u) == ~u.copy_enabled /\ ~u.pdf_enabled

\* the step is an on_calculate that ran to its end with inputs that pass both checks
CalculationCompleted ==
    /\ last'.op = "on_calculate"
    /\ last'.exc = "none"
    /\ ValidInputs(form)

\* C28: in every state of the form the copy and the PDF button are enabled only if
\* full_report has been assigned; the two buttons become enabled only in an
\* on_calculate that ran to its end with valid inputs, and they are disabled after
\* construction, after reset_form and after show_error.
C28_ReportButtonsNeedReport ==
    /\ [](/\ ~ReportButtonsOff(ui) => full_report.set
          /\ last = Idle => ReportButtonsOff(ui))
    /\ [][/\ last'.op = "reset_form" => ReportButtonsOff(ui')
          /\ (last'.op = "on_calculate" /\ AllFilled(form) /\ ~is_ct_valid(form.ct_percent))
                => ReportButtonsOff(ui')
          /\ (ReportButtonsOff(ui) /\ ~ReportButtonsOff(ui'))
                => CalculationCompleted /\ full_report'.set]_vars

\* show_error has taken the two buttons away after an earlier calculation had
\* assigned full_report and enabled them
C28_Witness ==
    /\ last.op = "on_calculate"
    /\ ui.instruction_text = ERROR_MESSAGE_CT
    /\ full_report.set
    /\ ui.reset_enabled
    /\ ReportButtonsOff(ui)


\* a calculation has run to its end and its result and report are still offered
ResultOffered ==
    /\ full_report.set
    /\ ui.result_visible /\ ui.risk_visible
    /\ ui.copy_enabled /\ ui.pdf_enabled /\ ui.reset_enabled

\* C29: an edit of an input field after a successful calculation leaves full_report,
\* the displayed result and risk and the enabled state of the copy, PDF and reset
\* buttons as they were: of the widgets only the calculate button, the instruction
\* label and the age display may change.
C29_EditKeepsReport ==
    [][(last'.op = "on_input_changed" /\ ResultOffered)
          => /\ form' /= form
             /\ full_report' = full_report
             /\ ui' = [ui EXCEPT !.calculate_enabled = ui'.calculate_enabled,
                                 !.instruction_text = ui'.instruction_text,
                                 !.instruction_visible = ui'.instruction_visible,
                                 !.age_display = ui'.age_display]]_vars

\* the result of a calculation is still shown and its report can still be copied
\* after an edit that has emptied or zeroed one of the three values
C29_Witness ==
    /\ last.op = "on_input_changed"
    /\ ResultOffered
    /\ ~LabValuesPositive(form)
    /\ ~ui.calculate_enabled


\* the history file is there and load_history makes the empty list of it without
\* raising: text that is not JSON, or JSON whose top level is not a list
DegradedToEmpty(f) == f.kind = "bad_json" \/ (f.kind = "json" /\ f.doc.t /= "array")

\* C30: when the history file exists and load_history degrades it to the empty list,
\* the next successful calculation overwrites the file with the list of exactly the
\* one new entry; what the file held before is gone.
C30_DegradedFileOverwritten ==
    [][(SuccessfulAppend /\ DegradedToEmpty(file))
          => /\ file' = JsonFile(DumpList(<<AppendedEntry>>))
             /\ load_history(file').result = <<AppendedEntry>>]_vars

\* a calculation has found text that is not JSON in the file (load_history logged
\* the failure) and has left the file with a list of one entry
C30_Witness ==
    /\ last.op = "on_calculate"
    /\ last.exc = "none"
    /\ last.logged = <<ERROR_LOAD_HISTORY>>
    /\ file.kind = "json"
    /\ Len(load_history(file).result) = 1
    /\ full_report.set

====
